---- MODULE Spec2Model ----
(***************************************************************************)
(* Real-time messaging core of the bookStore backend: the user directory, *)
(* the message store, the send pipeline of the socket gateway and of the  *)
(* HTTP fallback routes, read receipts, deletion, history pagination and  *)
(* the presence store.  Every handler is cut into steps at its awaits:    *)
(* one action runs the synchronous code between two suspension points.    *)
(***************************************************************************)
EXTENDS Integers, Sequences, FiniteSets, TLC

(***************************************************************************)
(* Identifiers and small value domains                                     *)
(***************************************************************************)
Users == {"u1", "u2", "u3"}

\* a falsy receiverId (absent from the payload)
NoId == ""
\* a well-formed identifier that names no user of the directory
Ghost == "ghost"

\* the users that act in the send pipeline specification
SendUsers == {"u1", "u2"}

\* the id of u2 written with its hexadecimal digits in upper case
UpperCaseId == "U2"

\* the cast of a query value or of a stored field to ObjectId, read back as a
\* string: 24 hexadecimal digits in either case give the lower-case id
CastObjectId(id) == IF id = UpperCaseId THEN "u2" ELSE id

NoKey == ""
NoToken == ""

MaxMsgs == 2
MaxClock == 2

\* one send request is in flight at a time; its steps interleave with the
\* directory operations, the other handlers and the clock
Slots == {1}

VARIABLES
  blockedUsers,   \* userSchema.blockedUsers, per user
  e2eeEnabled,    \* userSchema.e2eeEnabled, per user
  publicKey,      \* userSchema.publicKey, per user
  expoPushToken,  \* userSchema.expoPushToken, per user
  messages,       \* the messages collection
  nextId,         \* the next message _id
  nextFile,       \* the next storage reference the media store hands out
  clock,          \* Date.now(), in milliseconds
  send,           \* the send requests in flight, per slot
  rd,             \* the read requests in flight (mark_messages_read, GET /messages/:otherUserId)
  lastDone,       \* per reader and counterpart: nextId when the last finished read queried
  pager,          \* a client paging through one conversation
  del,            \* the delete requests in flight (delete_message, DELETE /messages/:messageId)
  onlineUsers,    \* onlineStore.js: the Set of online user ids
  conns,          \* the socket connections
  lastSeen,       \* userSchema.lastSeen, per user
  lastOp,         \* the last call made to the presence store, with its result
  pushCall,       \* a call of sendExpoPush, with the requests it issued
  http,           \* a request passing through protectRoutes
  clear,          \* a DELETE /messages/conversation/:otherUserId request
  listing,        \* a GET /messages/conversations request
  fetch,          \* a GET /messages/:otherUserId request against a long conversation
  typing,         \* a typing_start or typing_stop event
  keyUpload,      \* a POST /users/upload-public-key request
  friends,        \* the friends collection
  nextFriend,     \* the next friend record _id
  fr              \* the requests to the friend routes

vars == <<blockedUsers, e2eeEnabled, publicKey, expoPushToken, messages, nextId, nextFile, clock,
          send, rd, lastDone, pager, del, onlineUsers, conns, lastSeen, lastOp, pushCall, http, clear,
          listing, fetch, typing, keyUpload, friends, nextFriend, fr>>

dirVars == <<blockedUsers, e2eeEnabled, publicKey, expoPushToken>>

\* what the send pipeline, the directory routes and the clock leave alone
presence == <<onlineUsers, conns, lastSeen, lastOp>>
\* the requests of the other routes
social == <<friends, nextFriend, fr>>
later == <<typing, keyUpload, social>>
rest == <<listing, fetch, later>>
calls == <<pushCall, http, clear, rest>>
notSend == <<rd, lastDone, pager, del, presence, calls>>

\* `${USER_ROOM_PREFIX}${userId}`
Room(u) == <<"user:", u>>

(***************************************************************************)
(* Send requests                                                           *)
(***************************************************************************)
IdleSend ==
  [pc |-> "idle", path |-> "", user |-> "", receiverId |-> NoId,
   cipherText |-> "", nonce |-> "", voiceMessage |-> FALSE, senderPublicKey |-> NoKey,
   file |-> FALSE, encryptedVoiceMessage |-> FALSE, isEncrypted |-> FALSE, publicId |-> 0,
   sawReceiver |-> FALSE, sawBlocked |-> FALSE, sawE2ee |-> FALSE,
   msgKey |-> NoKey, msgId |-> 0, inStoreAtEmit |-> FALSE,
   result |-> "none", error |-> "", status |-> 0, marker |-> FALSE, failedAt |-> "",
   sawOwnBlock |-> FALSE, emits |-> <<>>, pushes |-> <<>>, acks |-> <<>>,
   tempFile |-> "none", tempPath |-> FALSE]

\* cipherText && nonce
IsE2EEMessage(r) == r.cipherText # "" /\ r.nonce # ""

\* the error object handed to cb(err), or the JSON body of an error response
\* what the callback, or the response, is given: an error or a message
Ack(err, id) == [error |-> err, message |-> id]

Reject(r, err, st) ==
  [r EXCEPT !.pc = "done", !.result = "err", !.error = err, !.status = st,
            !.acks = Append(r.acks, Ack(err, 0))]

(***************************************************************************)
(* Request payloads a client can send, per send path                       *)
(***************************************************************************)
Payload(c, n, v, k) == [cipherText |-> c, nonce |-> n, voiceMessage |-> v, senderPublicKey |-> k]

\* socket send_message and POST /messages: nothing, ciphertext alone, an encrypted
\* payload without and with the sender's key, a voice descriptor, both at once
MessagePayloads ==
  { Payload("", "", FALSE, NoKey), Payload("c1", "", FALSE, NoKey),
    Payload("c1", "n1", FALSE, NoKey), Payload("c1", "n1", FALSE, "K2"),
    Payload("", "", TRUE, NoKey), Payload("c1", "n1", TRUE, NoKey) }

\* POST /messages/encrypted-voice: [present, isEncrypted, cipherText, nonce, senderPublicKey]
EncVoicePayloads ==
  { <<FALSE, TRUE, "", "", NoKey>>, <<TRUE, FALSE, "c1", "n1", "K2">>,
    <<TRUE, TRUE, "c1", "", "K2">>, <<TRUE, TRUE, "c1", "n1", NoKey>>,
    <<TRUE, TRUE, "c1", "n1", "K2">> }

ReceiverIds == SendUsers \cup {NoId, Ghost, UpperCaseId}

\* the request once the sender's block list is read: whether the list holds
\* the user the receiverId names
OwnBlockRead(r) ==
  IF r.pc = "findSender"
  THEN [r EXCEPT !.sawOwnBlock = (CastObjectId(r.receiverId) \in blockedUsers[r.user])]
  ELSE r

\* sends that have not yet reached messageModel.create
Pending == {s \in Slots : send[s].pc \notin {"idle", "done"} /\ send[s].msgId = 0}

\* the model's bound on the collection size: a request starts only while the
\* identifiers it may need are left
Room4One == nextId + Cardinality(Pending) <= MaxMsgs /\ nextFile + Cardinality(Pending) <= MaxMsgs

(***************************************************************************)
(* The Message schema: messageModel.create keeps the schema's paths, fills *)
(* the defaults and stamps createdAt (timestamps: true)                    *)
(***************************************************************************)
NewMessage(id, from, to, enc, nonce, key, isEnc, voice, pubId, now) ==
  [id |-> id, sender |-> from, receiver |-> to, text |-> "",
   encryptedMessage |-> enc, nonce |-> nonce, senderPublicKey |-> key,
   isEncrypted |-> isEnc, voiceMessage |-> voice, cloudinaryPublicId |-> pubId,
   read |-> FALSE, createdAt |-> now]

Stored(id) == {m \in messages : m.id = id}

\* an outbound event: io.to(room).emit(event, populated)
\* the connection slots of the gateway
MaxConns == 2
ConnIds == 1 .. MaxConns

\* the sockets in a room, each with the user it authenticated as
Members(room) ==
  {[conn |-> c, user |-> conns[c].user] : c \in {d \in ConnIds : conns[d].joined /\ conns[d].room = room}}

\* every socket the transport holds open, each with its user
OpenSockets == {[conn |-> c, user |-> conns[c].user] : c \in {d \in ConnIds : conns[d].joined}}

\* io.to(room).emit(ev, ...): the event, the sockets it reaches, and the sockets
\* open at that moment
Event(room, ev, id, key) ==
  [room |-> room, event |-> ev, messageId |-> id, senderPublicKey |-> key,
   to |-> Members(room), open |-> OpenSockets]

\* a call of sendExpoPush(token, {title, body, data})
Push(token, body, id) == [to |-> token, body |-> body, messageId |-> id]

(***************************************************************************)
(* socket "send_message"                                                   *)
(***************************************************************************)
SocketStart(s, u, rid, p) ==
  /\ send[s].pc = "idle"
  /\ Room4One
  /\ LET r == [IdleSend EXCEPT !.path = "socket", !.user = u, !.receiverId = rid,
                               !.cipherText = p.cipherText, !.nonce = p.nonce,
                               !.voiceMessage = p.voiceMessage,
                               !.senderPublicKey = p.senderPublicKey]
     IN send' = [send EXCEPT ![s] =
          IF rid = NoId THEN Reject(r, "receiverId is required", 0)
          ELSE IF ~IsE2EEMessage(r) /\ ~r.voiceMessage THEN Reject(r, "payload required", 0)
          ELSE IF rid = u THEN Reject(r, "Cannot message yourself", 0)
          ELSE [r EXCEPT !.pc = "findReceiver"]]
  /\ UNCHANGED <<dirVars, messages, nextId, nextFile, clock, notSend>>

SocketFindReceiver(s) ==
  LET r == send[s] IN
  /\ r.pc = "findReceiver" /\ r.path = "socket"
  /\ send' = [send EXCEPT ![s] =
       IF CastObjectId(r.receiverId) \notin Users THEN Reject(r, "User not found", 0)
       ELSE LET seen == [r EXCEPT !.sawReceiver = TRUE,
                                  !.sawBlocked = (r.user \in blockedUsers[CastObjectId(r.receiverId)]),
                                  !.sawE2ee = e2eeEnabled[CastObjectId(r.receiverId)]]
            IN IF IsE2EEMessage(r) /\ ~e2eeEnabled[CastObjectId(r.receiverId)]
               THEN [Reject(seen, "Recipient has not enabled E2EE", 0) EXCEPT !.marker = TRUE]
               ELSE IF r.user \in blockedUsers[CastObjectId(r.receiverId)]
               THEN Reject(seen, "You are blocked from this user", 0)
               ELSE [seen EXCEPT !.pc = "findSender"]]
  /\ UNCHANGED <<dirVars, messages, nextId, nextFile, clock, notSend>>

SocketFindSender(s) ==
  LET r == OwnBlockRead(send[s]) IN
  /\ r.pc = "findSender" /\ r.path = "socket"
  /\ send' = [send EXCEPT ![s] =
       IF r.receiverId \in blockedUsers[r.user] THEN Reject(r, "You have blocked this user", 0)
       ELSE IF IsE2EEMessage(r) THEN [r EXCEPT !.pc = "create", !.msgKey = r.senderPublicKey]
       ELSE IF r.voiceMessage THEN [r EXCEPT !.pc = "create"]
       ELSE Reject(r, "Invalid message format", 0)]
  /\ UNCHANGED <<dirVars, messages, nextId, nextFile, clock, notSend>>

SocketCreate(s) ==
  LET r == send[s] IN
  /\ r.pc = "create" /\ r.path = "socket"
  /\ messages' = messages \cup
       { IF IsE2EEMessage(r)
         THEN NewMessage(nextId, r.user, CastObjectId(r.receiverId), r.cipherText, r.nonce, r.msgKey, TRUE, FALSE, 0, clock)
         ELSE NewMessage(nextId, r.user, CastObjectId(r.receiverId), "", "", NoKey, FALSE, TRUE, 0, clock) }
  /\ nextId' = nextId + 1
  /\ send' = [send EXCEPT ![s] = [r EXCEPT !.pc = "populate", !.msgId = nextId]]
  /\ UNCHANGED <<dirVars, nextFile, clock, notSend>>

\* the catch block of a handler: the rejected await ends the request with the
\* handler's generic failure; POST /messages/voice unlinks tempPath when it is set
Caught(r) ==
  [Reject(r, IF r.path = "voice" THEN "Failed to send voice message"
             ELSE IF r.path = "encvoice" THEN "Failed to send encrypted voice message"
             ELSE "Failed to send message",
          IF r.path = "socket" THEN 0 ELSE 500)
     EXCEPT !.failedAt = r.pc, !.tempPath = FALSE,
            !.tempFile = IF r.tempPath THEN "removed" ELSE @]

\* populated.senderPublicKey: the live key of the sender when there is one
Populated(r, m) ==
  IF IsE2EEMessage(r) /\ publicKey[r.user] # NoKey THEN publicKey[r.user] ELSE m.senderPublicKey

\* send_message emitting to the receiver's room only
SocketPopulateReceiverOnly(s) ==
  LET r == send[s] IN
  /\ r.pc = "populate" /\ r.path = "socket"
  /\ send' = [send EXCEPT ![s] =
       IF Stored(r.msgId) = {} THEN Caught(r)
       ELSE LET m == CHOOSE x \in Stored(r.msgId) : TRUE
                k == Populated(r, m)
            IN [r EXCEPT !.pc = "findPushToken", !.inStoreAtEmit = TRUE,
                         !.emits = <<Event(Room(r.receiverId), "new_message", r.msgId, k)>>]]
  /\ UNCHANGED <<dirVars, messages, nextId, nextFile, clock, notSend>>

SocketPopulate(s) ==
  LET r == send[s] IN
  /\ r.pc = "populate" /\ r.path = "socket"
  /\ send' = [send EXCEPT ![s] =
       IF Stored(r.msgId) = {} THEN Caught(r)
       ELSE LET m == CHOOSE x \in Stored(r.msgId) : TRUE
                k == Populated(r, m)
            IN [r EXCEPT !.pc = "findPushToken", !.inStoreAtEmit = TRUE,
                         !.emits = <<Event(Room(r.receiverId), "new_message", r.msgId, k),
                                     Event(Room(r.user), "new_message", r.msgId, k)>>]]
  /\ UNCHANGED <<dirVars, messages, nextId, nextFile, clock, notSend>>

\* a notification body that previews the payload
NotificationBodyPreview(r) ==
  IF IsE2EEMessage(r) THEN r.cipherText
  ELSE IF r.voiceMessage THEN "Voice message" ELSE "New message"

\* the notification body, chosen by payload variant
NotificationBody(r) ==
  IF IsE2EEMessage(r) THEN "Encrypted message"
  ELSE IF r.voiceMessage THEN "Voice message" ELSE "New message"

\* a handler that ends without calling back
AckedSilently(r) == [r EXCEPT !.pc = "done", !.result = "ok", !.status = IF r.path = "socket" THEN 0 ELSE 201]

Acked(r) ==
  [r EXCEPT !.pc = "done", !.result = "ok", !.status = IF r.path = "socket" THEN 0 ELSE 201,
            !.acks = Append(r.acks, Ack("", r.msgId))]

SocketFindPushToken(s) ==
  LET r == send[s] IN
  /\ r.pc = "findPushToken" /\ r.path = "socket"
  /\ send' = [send EXCEPT ![s] =
       IF expoPushToken[CastObjectId(r.receiverId)] # NoToken
       THEN Acked([r EXCEPT !.pushes = <<Push(expoPushToken[CastObjectId(r.receiverId)], NotificationBody(r), r.msgId)>>])
       ELSE Acked(r)]
  /\ UNCHANGED <<dirVars, messages, nextId, nextFile, clock, notSend>>

(***************************************************************************)
(* POST /messages                                                          *)
(***************************************************************************)
PostStart(s, u, rid, p) ==
  /\ send[s].pc = "idle"
  /\ Room4One
  /\ LET r == [IdleSend EXCEPT !.path = "post", !.user = u, !.receiverId = rid,
                               !.cipherText = p.cipherText, !.nonce = p.nonce,
                               !.voiceMessage = p.voiceMessage,
                               !.senderPublicKey = p.senderPublicKey]
     IN send' = [send EXCEPT ![s] =
          IF rid = NoId THEN Reject(r, "receiverId is required", 400)
          ELSE IF ~IsE2EEMessage(r) /\ ~r.voiceMessage THEN Reject(r, "payload required", 403)
          ELSE [r EXCEPT !.pc = "findReceiver"]]
  /\ UNCHANGED <<dirVars, messages, nextId, nextFile, clock, notSend>>

\* POST /messages without the E2EE policy check of lines 545-553
PostFindReceiverNoE2ee(s) ==
  LET r == send[s] IN
  /\ r.pc = "findReceiver" /\ r.path = "post"
  /\ send' = [send EXCEPT ![s] =
       IF CastObjectId(r.receiverId) \notin Users THEN Reject(r, "User not found", 404)
       ELSE LET seen == [r EXCEPT !.sawReceiver = TRUE,
                                  !.sawBlocked = (r.user \in blockedUsers[CastObjectId(r.receiverId)]),
                                  !.sawE2ee = e2eeEnabled[CastObjectId(r.receiverId)]]
            IN IF r.user \in blockedUsers[CastObjectId(r.receiverId)]
               THEN Reject(seen, "You are blocked from this user", 403)
               ELSE [seen EXCEPT !.pc = "findSender"]]
  /\ UNCHANGED <<dirVars, messages, nextId, nextFile, clock, notSend>>

PostFindReceiver(s) ==
  LET r == send[s] IN
  /\ r.pc = "findReceiver" /\ r.path = "post"
  /\ send' = [send EXCEPT ![s] =
       IF CastObjectId(r.receiverId) \notin Users THEN Reject(r, "User not found", 404)
       ELSE LET seen == [r EXCEPT !.sawReceiver = TRUE,
                                  !.sawBlocked = (r.user \in blockedUsers[CastObjectId(r.receiverId)]),
                                  !.sawE2ee = e2eeEnabled[CastObjectId(r.receiverId)]]
            IN IF IsE2EEMessage(r) /\ ~e2eeEnabled[CastObjectId(r.receiverId)]
               THEN [Reject(seen, "Recipient has not enabled E2EE", 403) EXCEPT !.marker = TRUE]
               ELSE IF r.user \in blockedUsers[CastObjectId(r.receiverId)]
               THEN Reject(seen, "You are blocked from this user", 403)
               ELSE [seen EXCEPT !.pc = "findSender"]]
  /\ UNCHANGED <<dirVars, messages, nextId, nextFile, clock, notSend>>

PostFindSender(s) ==
  LET r == OwnBlockRead(send[s]) IN
  /\ r.pc = "findSender" /\ r.path = "post"
  /\ send' = [send EXCEPT ![s] =
       IF r.receiverId \in blockedUsers[r.user] THEN Reject(r, "You have blocked this user", 403)
       ELSE IF IsE2EEMessage(r) /\ r.senderPublicKey = NoKey THEN [r EXCEPT !.pc = "findSenderKey"]
       ELSE IF IsE2EEMessage(r) THEN [r EXCEPT !.pc = "create", !.msgKey = r.senderPublicKey]
       ELSE [r EXCEPT !.pc = "create"]]
  /\ UNCHANGED <<dirVars, messages, nextId, nextFile, clock, notSend>>

PostFindSenderKey(s) ==
  LET r == send[s] IN
  /\ r.pc = "findSenderKey" /\ r.path = "post"
  /\ send' = [send EXCEPT ![s] =
       IF publicKey[r.user] # NoKey THEN [r EXCEPT !.pc = "create", !.msgKey = publicKey[r.user]]
       ELSE Reject(r, "Sender public key not available", 400)]
  /\ UNCHANGED <<dirVars, messages, nextId, nextFile, clock, notSend>>

PostCreate(s) ==
  LET r == send[s] IN
  /\ r.pc = "create" /\ r.path = "post"
  /\ messages' = messages \cup
       { IF IsE2EEMessage(r)
         THEN NewMessage(nextId, r.user, CastObjectId(r.receiverId), r.cipherText, r.nonce, r.msgKey, TRUE, FALSE, 0, clock)
         ELSE NewMessage(nextId, r.user, CastObjectId(r.receiverId), "", "", NoKey, FALSE, TRUE, 0, clock) }
  /\ nextId' = nextId + 1
  /\ send' = [send EXCEPT ![s] = [r EXCEPT !.pc = "populate", !.msgId = nextId]]
  /\ UNCHANGED <<dirVars, nextFile, clock, notSend>>

PostPopulate(s) ==
  LET r == send[s] IN
  /\ r.pc = "populate" /\ r.path = "post"
  /\ send' = [send EXCEPT ![s] =
       IF Stored(r.msgId) = {} THEN Caught(r)
       ELSE LET m == CHOOSE x \in Stored(r.msgId) : TRUE
            IN [r EXCEPT !.pc = "findPushToken", !.inStoreAtEmit = TRUE,
                         !.emits = <<Event(Room(r.receiverId), "new_message", r.msgId, Populated(r, m))>>]]
  /\ UNCHANGED <<dirVars, messages, nextId, nextFile, clock, notSend>>

PostFindPushToken(s) ==
  LET r == send[s] IN
  /\ r.pc = "findPushToken" /\ r.path = "post"
  /\ send' = [send EXCEPT ![s] =
       IF expoPushToken[CastObjectId(r.receiverId)] # NoToken
       THEN Acked([r EXCEPT !.pushes = <<Push(expoPushToken[CastObjectId(r.receiverId)], NotificationBody(r), r.msgId)>>])
       ELSE Acked(r)]
  /\ UNCHANGED <<dirVars, messages, nextId, nextFile, clock, notSend>>

(***************************************************************************)
(* POST /messages/voice (after the upload middleware stored the file)      *)
(***************************************************************************)
VoiceStart(s, u, rid, hasFile) ==
  /\ send[s].pc = "idle"
  /\ Room4One
  /\ LET r == [IdleSend EXCEPT !.path = "voice", !.user = u, !.receiverId = rid, !.file = hasFile,
                               !.tempFile = IF hasFile THEN "stored" ELSE "none"]
     IN send' = [send EXCEPT ![s] =
          IF rid = NoId THEN Reject(r, "receiverId is required", 400)
          ELSE IF ~hasFile THEN Reject(r, "Voice file is required", 400)
          ELSE [r EXCEPT !.pc = "findReceiver"]]
  /\ UNCHANGED <<dirVars, messages, nextId, nextFile, clock, notSend>>

\* POST /messages/voice without the block-list check of the receiver
VoiceFindReceiverNoBlock(s) ==
  LET r == send[s] IN
  /\ r.pc = "findReceiver" /\ r.path = "voice"
  /\ send' = [send EXCEPT ![s] =
       IF CastObjectId(r.receiverId) \notin Users THEN Reject(r, "User not found", 404)
       ELSE [r EXCEPT !.pc = "findSender", !.sawReceiver = TRUE,
                      !.sawBlocked = (r.user \in blockedUsers[CastObjectId(r.receiverId)]),
                      !.sawE2ee = e2eeEnabled[CastObjectId(r.receiverId)]]]
  /\ UNCHANGED <<dirVars, messages, nextId, nextFile, clock, notSend>>

VoiceFindReceiver(s) ==
  LET r == send[s] IN
  /\ r.pc = "findReceiver" /\ r.path = "voice"
  /\ send' = [send EXCEPT ![s] =
       IF CastObjectId(r.receiverId) \notin Users THEN Reject(r, "User not found", 404)
       ELSE LET seen == [r EXCEPT !.sawReceiver = TRUE,
                                  !.sawBlocked = (r.user \in blockedUsers[CastObjectId(r.receiverId)]),
                                  !.sawE2ee = e2eeEnabled[CastObjectId(r.receiverId)]]
            IN IF r.user \in blockedUsers[CastObjectId(r.receiverId)]
               THEN Reject(seen, "You are blocked from this user", 403)
               ELSE [seen EXCEPT !.pc = "findSender"]]
  /\ UNCHANGED <<dirVars, messages, nextId, nextFile, clock, notSend>>

VoiceFindSender(s) ==
  LET r == OwnBlockRead(send[s]) IN
  /\ r.pc = "findSender" /\ r.path = "voice"
  /\ send' = [send EXCEPT ![s] =
       IF r.receiverId \in blockedUsers[r.user] THEN Reject(r, "You have blocked this user", 403)
       ELSE [r EXCEPT !.pc = "upload", !.tempPath = TRUE]]
  /\ UNCHANGED <<dirVars, messages, nextId, nextFile, clock, notSend>>

\* cloudinary.uploader.upload: the media store hands out a fresh public_id;
\* then fs.unlink(tempPath) and tempPath = null
VoiceUpload(s) ==
  LET r == send[s] IN
  /\ r.pc = "upload" /\ r.path = "voice"
  /\ nextFile' = nextFile + 1
  /\ send' = [send EXCEPT ![s] = [r EXCEPT !.pc = "create", !.publicId = nextFile,
                                           !.tempFile = "removed", !.tempPath = FALSE]]
  /\ UNCHANGED <<dirVars, messages, nextId, clock, notSend>>

VoiceCreate(s) ==
  LET r == send[s] IN
  /\ r.pc = "create" /\ r.path = "voice"
  /\ messages' = messages \cup
       { NewMessage(nextId, r.user, CastObjectId(r.receiverId), "", "", NoKey, FALSE, TRUE, r.publicId, clock) }
  /\ nextId' = nextId + 1
  /\ send' = [send EXCEPT ![s] = [r EXCEPT !.pc = "populate", !.msgId = nextId]]
  /\ UNCHANGED <<dirVars, nextFile, clock, notSend>>

VoicePopulate(s) ==
  LET r == send[s] IN
  /\ r.pc = "populate" /\ r.path = "voice"
  /\ send' = [send EXCEPT ![s] =
       IF Stored(r.msgId) = {}
       THEN [r EXCEPT !.pc = "findPushToken",
                      !.emits = <<Event(Room(r.receiverId), "new_message", 0, NoKey)>>]
       ELSE LET m == CHOOSE x \in Stored(r.msgId) : TRUE
            IN [r EXCEPT !.pc = "findPushToken", !.inStoreAtEmit = TRUE,
                         !.emits = <<Event(Room(r.receiverId), "new_message", r.msgId, m.senderPublicKey)>>]]
  /\ UNCHANGED <<dirVars, messages, nextId, nextFile, clock, notSend>>

VoiceFindPushToken(s) ==
  LET r == send[s] IN
  /\ r.pc = "findPushToken" /\ r.path = "voice"
  /\ send' = [send EXCEPT ![s] =
       IF expoPushToken[CastObjectId(r.receiverId)] = NoToken THEN Acked(r)
       ELSE IF r.inStoreAtEmit
       THEN Acked([r EXCEPT !.pushes = <<Push(expoPushToken[CastObjectId(r.receiverId)], "Voice message", r.msgId)>>])
       ELSE Caught(r)]
  /\ UNCHANGED <<dirVars, messages, nextId, nextFile, clock, notSend>>

(***************************************************************************)
(* POST /messages/encrypted-voice                                          *)
(***************************************************************************)
EncVoiceStart(s, u, rid, p) ==
  /\ send[s].pc = "idle"
  /\ Room4One
  /\ LET r == [IdleSend EXCEPT !.path = "encvoice", !.user = u, !.receiverId = rid,
                               !.encryptedVoiceMessage = p[1], !.isEncrypted = p[2],
                               !.cipherText = p[3], !.nonce = p[4], !.senderPublicKey = p[5]]
     IN send' = [send EXCEPT ![s] =
          IF rid = NoId THEN Reject(r, "receiverId is required", 400)
          ELSE IF ~r.encryptedVoiceMessage \/ ~r.isEncrypted
          THEN Reject(r, "Encrypted voice message data is required", 400)
          ELSE IF r.cipherText = "" \/ r.nonce = "" \/ r.senderPublicKey = NoKey
          THEN Reject(r, "Missing encryption data", 400)
          ELSE [r EXCEPT !.pc = "findReceiver"]]
  /\ UNCHANGED <<dirVars, messages, nextId, nextFile, clock, notSend>>

EncVoiceFindReceiver(s) ==
  LET r == send[s] IN
  /\ r.pc = "findReceiver" /\ r.path = "encvoice"
  /\ send' = [send EXCEPT ![s] =
       IF CastObjectId(r.receiverId) \notin Users THEN Reject(r, "User not found", 404)
       ELSE LET seen == [r EXCEPT !.sawReceiver = TRUE,
                                  !.sawBlocked = (r.user \in blockedUsers[CastObjectId(r.receiverId)]),
                                  !.sawE2ee = e2eeEnabled[CastObjectId(r.receiverId)]]
            IN IF r.user \in blockedUsers[CastObjectId(r.receiverId)]
               THEN Reject(seen, "You are blocked from this user", 403)
               ELSE [seen EXCEPT !.pc = "findSender"]]
  /\ UNCHANGED <<dirVars, messages, nextId, nextFile, clock, notSend>>

EncVoiceFindSender(s) ==
  LET r == OwnBlockRead(send[s]) IN
  /\ r.pc = "findSender" /\ r.path = "encvoice"
  /\ send' = [send EXCEPT ![s] =
       IF r.receiverId \in blockedUsers[r.user] THEN Reject(r, "You have blocked this user", 403)
       ELSE [r EXCEPT !.pc = "create"]]
  /\ UNCHANGED <<dirVars, messages, nextId, nextFile, clock, notSend>>

\* encryptedVoiceMessage is no path of the Message schema: create keeps sender,
\* receiver and isEncrypted and fills the other paths with their defaults
EncVoiceCreate(s) ==
  LET r == send[s] IN
  /\ r.pc = "create" /\ r.path = "encvoice"
  /\ messages' = messages \cup
       { NewMessage(nextId, r.user, CastObjectId(r.receiverId), "", "", NoKey, TRUE, FALSE, 0, clock) }
  /\ nextId' = nextId + 1
  /\ send' = [send EXCEPT ![s] = [r EXCEPT !.pc = "populate", !.msgId = nextId]]
  /\ UNCHANGED <<dirVars, nextFile, clock, notSend>>

EncVoicePopulate(s) ==
  LET r == send[s] IN
  /\ r.pc = "populate" /\ r.path = "encvoice"
  /\ send' = [send EXCEPT ![s] =
       IF Stored(r.msgId) = {}
       THEN [r EXCEPT !.pc = "findPushToken",
                      !.emits = <<Event(Room(r.receiverId), "new_message", 0, NoKey)>>]
       ELSE LET m == CHOOSE x \in Stored(r.msgId) : TRUE
            IN [r EXCEPT !.pc = "findPushToken", !.inStoreAtEmit = TRUE,
                         !.emits = <<Event(Room(r.receiverId), "new_message", r.msgId, m.senderPublicKey)>>]]
  /\ UNCHANGED <<dirVars, messages, nextId, nextFile, clock, notSend>>

EncVoiceFindPushToken(s) ==
  LET r == send[s] IN
  /\ r.pc = "findPushToken" /\ r.path = "encvoice"
  /\ send' = [send EXCEPT ![s] =
       IF expoPushToken[CastObjectId(r.receiverId)] = NoToken THEN Acked(r)
       ELSE IF r.inStoreAtEmit
       THEN Acked([r EXCEPT !.pushes = <<Push(expoPushToken[CastObjectId(r.receiverId)], "Encrypted voice message", r.msgId)>>])
       ELSE Caught(r)]
  /\ UNCHANGED <<dirVars, messages, nextId, nextFile, clock, notSend>>

(***************************************************************************)
(* A rejected await (the database or the media store is unreachable): the  *)
(* handler's catch block answers with its generic failure                  *)
(***************************************************************************)
Awaiting == {"findReceiver", "findSender", "findSenderKey", "upload", "create", "populate", "findPushToken"}

SendAwaitRejects(s) ==
  /\ send[s].pc \in Awaiting
  /\ send' = [send EXCEPT ![s] = Caught(send[s])]
  /\ UNCHANGED <<dirVars, messages, nextId, nextFile, clock, notSend>>

\* the acknowledgement or the HTTP response has been delivered
SendRetire(s) ==
  /\ send[s].pc = "done"
  /\ send' = [send EXCEPT ![s] = IdleSend]
  /\ UNCHANGED <<dirVars, messages, nextId, nextFile, clock, notSend>>

(***************************************************************************)
(* POST /users/block and POST /users/unblock                               *)
(***************************************************************************)
Block(u, v) ==
  /\ v # NoId /\ v # u
  /\ v \in Users
  /\ v \notin blockedUsers[u]
  /\ blockedUsers' = [blockedUsers EXCEPT ![u] = @ \cup {v}]
  /\ UNCHANGED <<e2eeEnabled, publicKey, expoPushToken, messages, nextId, nextFile, clock, send, notSend>>

Unblock(u, v) ==
  /\ v # NoId
  /\ v \in blockedUsers[u]
  /\ blockedUsers' = [blockedUsers EXCEPT ![u] = {x \in @ : x # v}]
  /\ UNCHANGED <<e2eeEnabled, publicKey, expoPushToken, messages, nextId, nextFile, clock, send, notSend>>

(***************************************************************************)
(* Time passes: createdAt has millisecond resolution, so two creations may *)
(* carry the same stamp                                                    *)
(***************************************************************************)
Tick ==
  /\ clock < MaxClock
  /\ clock' = clock + 1
  /\ UNCHANGED <<dirVars, messages, nextId, nextFile, send, notSend>>

(***************************************************************************)
(* GET /messages/:otherUserId : the history query                          *)
(***************************************************************************)
LIMIT == 50
MaxPageSize == 100

Min(a, b) == IF a <= b THEN a ELSE b

\* req.query.before: absent, an ISO date (a millisecond stamp), or a string that
\* new Date() cannot parse
NoCursor == [kind |-> "none", t |-> 0]
DateCursor(t) == [kind |-> "date", t |-> t]
JunkCursor == [kind |-> "junk", t |-> 0]

\* Math.min(parseInt(req.query.limit, 10) || LIMIT, 100), for a limit given as an integer
PageLimit(k) == Min(IF k = 0 THEN LIMIT ELSE k, MaxPageSize)

\* the filter: the unordered pair, its ids cast to ObjectId by the query, and
\* createdAt < before when before parses
Conversation(a, b, before) ==
  {m \in messages :
     /\ \/ m.sender = CastObjectId(a) /\ m.receiver = CastObjectId(b)
        \/ m.sender = CastObjectId(b) /\ m.receiver = CastObjectId(a)
     /\ before.kind = "date" => m.createdAt < before.t}

Range(q) == {q[i] : i \in DOMAIN q}

\* the documents of the first batch of a find, MongoDB's default
FirstBatch == 101

\* cursor.limit(k): at most k documents; a negative k asks for at most -k
\* documents in a single batch, after which the cursor is closed
Fetched(k) == IF k < 0 THEN Min(0 - k, FirstBatch) ELSE k

\* .sort({createdAt: -1}).limit(limit): the store leaves the order of equal
\* stamps open, so every newest-first selection of the page size is possible
NewestFirst(M, k) ==
  LET n == Min(Fetched(k), Cardinality(M)) IN
  {q \in [1 .. n -> M] :
     /\ \A i, j \in 1 .. n : i < j => q[i] # q[j] /\ q[i].createdAt >= q[j].createdAt
     /\ \A m \in M \ Range(q) : \A i \in 1 .. n : m.createdAt <= q[i].createdAt}

\* the page left newest first
Unreversed(q) == q

Reverse(q) == [i \in 1 .. Len(q) |-> q[Len(q) + 1 - i]]

\* the pages the route can answer with, in chronological order
FindPage(a, b, before, limit) == {Reverse(q) : q \in NewestFirst(Conversation(a, b, before), limit)}

FindConversation(a, b, before, k) == FindPage(a, b, before, PageLimit(k))

(***************************************************************************)
(* Read requests: socket "mark_messages_read" and GET /messages/:otherUserId *)
(***************************************************************************)
RdSlots == {1, 2}

IdleRead ==
  [pc |-> "idle", kind |-> "", user |-> "", otherUserId |-> NoId, limit |-> 0, before |-> NoCursor,
   page |-> <<>>, oldest |-> 0, hasMore |-> FALSE, toMark |-> {}, flipped |-> {},
   idAtFind |-> 0, afterQuiet |-> FALSE, emits |-> <<>>, status |-> 0, failed |-> FALSE,
   byPager |-> FALSE]

\* a query for the unread messages of the pair in both directions
UnreadBothWays(u, o) ==
  {m.id : m \in {x \in messages : {x.sender, x.receiver} = {u, o} /\ ~x.read}}

\* find({sender: otherUserId, receiver: userId, read: false}).select("_id")
Unread(u, o) == {m.id : m \in {x \in messages : x.sender = o /\ x.receiver = u /\ ~x.read}}

\* an update that matches the identifiers and sets nothing
MarkReadNothing(ids) == messages

\* updateMany({_id: {$in: markedIds}}, {$set: {read: true}})
MarkRead(ids) == {IF m.id \in ids THEN [m EXCEPT !.read = TRUE] ELSE m : m \in messages}

\* io.to(`user:${otherUserId}`).emit("messages_read", {messageIds, readBy})
ReadEvent(o, ids, u) ==
  [room |-> Room(o), event |-> "messages_read", messageIds |-> ids, readBy |-> u,
   to |-> Members(Room(o)), open |-> OpenSockets]

readFrame == <<dirVars, nextId, nextFile, clock, send, del, presence, calls>>

MarkStart(s, u, o) ==
  /\ rd[s].pc = "idle"
  /\ LET r == [IdleRead EXCEPT !.kind = "socket", !.user = u, !.otherUserId = o]
     IN rd' = [rd EXCEPT ![s] = IF o = NoId \/ o = u THEN [r EXCEPT !.pc = "done"]
                                ELSE [r EXCEPT !.pc = "find"]]
  /\ UNCHANGED <<readFrame, messages, lastDone, pager>>

\* the query for the unread messages; with none the handler is finished
ReadFind(s, st) ==
  LET r == rd[s]
      ids == Unread(r.user, r.otherUserId)
      seen == [r EXCEPT !.toMark = ids, !.idAtFind = nextId,
                        !.afterQuiet = (lastDone[r.user][r.otherUserId] = nextId)]
  IN /\ rd' = [rd EXCEPT ![s] = IF ids = {} THEN [seen EXCEPT !.pc = "done", !.status = st]
                                 ELSE [seen EXCEPT !.pc = "update"]]
     /\ lastDone' = IF ids = {} THEN [lastDone EXCEPT ![r.user][r.otherUserId] = nextId]
                    ELSE lastDone
     /\ UNCHANGED <<readFrame, messages, pager>>

\* the batch update and the notification of the original sender's room
ReadUpdate(s, st) ==
  LET r == rd[s] IN
  /\ messages' = MarkRead(r.toMark)
  /\ rd' = [rd EXCEPT ![s] =
       [r EXCEPT !.pc = "done", !.status = st,
                 !.flipped = {m.id : m \in {x \in messages : x.id \in r.toMark /\ ~x.read}},
                 !.emits = <<ReadEvent(r.otherUserId, r.toMark, r.user)>>]]
  /\ lastDone' = [lastDone EXCEPT ![r.user][r.otherUserId] = r.idAtFind]
  /\ UNCHANGED <<readFrame, pager>>

MarkFind(s) == rd[s].kind = "socket" /\ rd[s].pc = "find" /\ ReadFind(s, 0)

MarkUpdate(s) == rd[s].kind = "socket" /\ rd[s].pc = "update" /\ ReadUpdate(s, 0)

GetStart(s, u, o, k, before, paging) ==
  /\ rd[s].pc = "idle"
  /\ LET r == [IdleRead EXCEPT !.kind = "get", !.user = u, !.otherUserId = o,
                               !.limit = PageLimit(k), !.before = before, !.byPager = paging]
     IN rd' = [rd EXCEPT ![s] = IF o = NoId \/ o = u THEN [r EXCEPT !.pc = "done", !.status = 400]
                                ELSE [r EXCEPT !.pc = "page"]]
  /\ UNCHANGED <<readFrame, messages, lastDone>>

StampOf(q) == IF q = <<>> THEN 0 ELSE q[1].createdAt

GetPage(s) ==
  LET r == rd[s] IN
  /\ r.kind = "get" /\ r.pc = "page"
  /\ \E q \in FindPage(r.user, r.otherUserId, r.before, r.limit) :
       rd' = [rd EXCEPT ![s] = [r EXCEPT !.pc = "find", !.page = [i \in 1 .. Len(q) |-> q[i].id],
                                         !.oldest = StampOf(q), !.hasMore = (Len(q) = r.limit)]]
  /\ UNCHANGED <<readFrame, messages, lastDone, pager>>

GetFind(s) == rd[s].kind = "get" /\ rd[s].pc = "find" /\ ReadFind(s, 200)

GetUpdate(s) == rd[s].kind = "get" /\ rd[s].pc = "update" /\ ReadUpdate(s, 200)

\* a query or the update rejects: GET answers 500, the socket handler logs
ReadAwaitRejects(s) ==
  /\ rd[s].pc \in {"page", "find", "update"}
  /\ rd' = [rd EXCEPT ![s] = [@ EXCEPT !.pc = "done", !.failed = TRUE,
                                       !.status = IF rd[s].kind = "get" THEN 500 ELSE 0]]
  /\ UNCHANGED <<readFrame, messages, lastDone, pager>>

ReadRetire(s) ==
  /\ rd[s].pc = "done" /\ ~rd[s].byPager
  /\ rd' = [rd EXCEPT ![s] = IdleRead]
  /\ UNCHANGED <<readFrame, messages, lastDone, pager>>

(***************************************************************************)
(* A client that pages through a conversation: the first request has no    *)
(* cursor, each following one passes the oldest createdAt it was returned  *)
(***************************************************************************)
MaxLimit == 2

IdlePager ==
  [active |-> FALSE, user |-> "", other |-> "", k |-> 0, cursor |-> NoCursor,
   acc |-> <<>>, sizes |-> <<>>, base |-> 0, waiting |-> FALSE, finished |-> FALSE]

PagerBegin(u, o, k) ==
  /\ ~pager.active
  /\ pager' = [IdlePager EXCEPT !.active = TRUE, !.user = u, !.other = o, !.k = k, !.base = nextId]
  /\ UNCHANGED <<readFrame, messages, rd, lastDone>>

PagerRequest(s) ==
  /\ pager.active /\ ~pager.waiting /\ ~pager.finished
  /\ GetStart(s, pager.user, pager.other, pager.k, pager.cursor, TRUE)
  /\ pager' = [pager EXCEPT !.waiting = TRUE]

PagerReceive(s) ==
  LET r == rd[s] IN
  /\ r.pc = "done" /\ r.byPager
  /\ pager' = IF r.status # 200 THEN IdlePager
              ELSE [pager EXCEPT !.waiting = FALSE, !.acc = r.page \o @, !.sizes = Append(@, Len(r.page)),
                                 !.cursor = IF r.page = <<>> THEN @ ELSE DateCursor(r.oldest),
                                 !.finished = ~r.hasMore]
  /\ rd' = [rd EXCEPT ![s] = IdleRead]
  /\ UNCHANGED <<readFrame, messages, lastDone>>

PagerEnd ==
  /\ pager.finished
  /\ pager' = IdlePager
  /\ UNCHANGED <<readFrame, messages, rd, lastDone>>

(***************************************************************************)
(* Delete requests: socket "delete_message" and DELETE /messages/:messageId *)
(***************************************************************************)
DelSlots == {1}

\* message identifiers a client can pass: none, a string that is no ObjectId,
\* or a well-formed identifier, of a stored message or of none
NoMessageId == 0
BadMessageId == -1
MessageIds == 1 .. MaxMsgs

IdleDelete ==
  [pc |-> "idle", kind |-> "", user |-> "", messageId |-> NoMessageId,
   found |-> FALSE, own |-> FALSE, receiver |-> "", publicId |-> 0, destroyed |-> 0,
   cleanup |-> <<>>, cleanupFailed |-> FALSE, removed |-> {}, removedFiles |-> {},
   dbRejected |-> FALSE, result |-> "none", error |-> "", status |-> 0, emits |-> <<>>]

NotFoundError == "Message not found"
NotOwnerError == "Unauthorized - You can only delete your own messages"

DeleteReject(r, err, st) == [r EXCEPT !.pc = "done", !.result = "err", !.error = err, !.status = st]

DeleteCaught(r) == DeleteReject(r, "Failed to delete message", IF r.kind = "socket" THEN 0 ELSE 500)

DeletedEvent(room, id) ==
  [room |-> room, event |-> "message_deleted", messageId |-> id,
   to |-> Members(room), open |-> OpenSockets]

delFrame == <<dirVars, nextId, nextFile, clock, send, rd, lastDone, pager, presence, calls>>

SocketDeleteStart(s, u, id) ==
  /\ del[s].pc = "idle"
  /\ LET r == [IdleDelete EXCEPT !.kind = "socket", !.user = u, !.messageId = id]
     IN del' = [del EXCEPT ![s] = IF id = NoMessageId THEN DeleteReject(r, "messageId required", 0)
                                  ELSE [r EXCEPT !.pc = "find"]]
  /\ UNCHANGED <<delFrame, messages>>

HttpDeleteStart(s, u, id) ==
  /\ del[s].pc = "idle"
  /\ id # NoMessageId
  /\ del' = [del EXCEPT ![s] = [IdleDelete EXCEPT !.kind = "http", !.user = u, !.messageId = id,
                                                  !.pc = "find"]]
  /\ UNCHANGED <<delFrame, messages>>

\* the lookup without the ownership test
DeleteFindAnyone(s) ==
  LET r == del[s] IN
  /\ r.pc = "find"
  /\ del' = [del EXCEPT ![s] =
       IF r.messageId = BadMessageId THEN DeleteCaught(r)
       ELSE IF Stored(r.messageId) = {}
       THEN DeleteReject(r, NotFoundError, IF r.kind = "socket" THEN 0 ELSE 404)
       ELSE LET msg == CHOOSE m \in Stored(r.messageId) : TRUE
                seen == [r EXCEPT !.found = TRUE, !.own = (msg.sender = r.user),
                                  !.receiver = msg.receiver, !.publicId = msg.cloudinaryPublicId]
            IN IF r.kind = "http" /\ msg.cloudinaryPublicId # 0
               THEN [seen EXCEPT !.pc = "destroy"]
               ELSE [seen EXCEPT !.pc = "delete"]]
  /\ UNCHANGED <<delFrame, messages>>

\* findById, then the ownership test; the route goes on to the media store
\* when the message carries a storage reference
DeleteFind(s) ==
  LET r == del[s] IN
  /\ r.pc = "find"
  /\ del' = [del EXCEPT ![s] =
       IF r.messageId = BadMessageId THEN DeleteCaught(r)
       ELSE IF Stored(r.messageId) = {}
       THEN DeleteReject(r, NotFoundError, IF r.kind = "socket" THEN 0 ELSE 404)
       ELSE LET msg == CHOOSE m \in Stored(r.messageId) : TRUE
                seen == [r EXCEPT !.found = TRUE, !.own = (msg.sender = r.user),
                                  !.receiver = msg.receiver, !.publicId = msg.cloudinaryPublicId]
            IN IF msg.sender # r.user
               THEN DeleteReject(seen, NotOwnerError, IF r.kind = "socket" THEN 0 ELSE 403)
               ELSE IF r.kind = "http" /\ msg.cloudinaryPublicId # 0
               THEN [seen EXCEPT !.pc = "destroy"]
               ELSE [seen EXCEPT !.pc = "delete"]]
  /\ UNCHANGED <<delFrame, messages>>

\* the files of a set of messages
Files(ms) == {m.cloudinaryPublicId : m \in ms} \ {0}

\* a destroy whose failure reaches the route's catch
DeleteDestroyRethrows(s) ==
  LET r == del[s] IN
  /\ r.pc = "destroy"
  /\ \E done \in BOOLEAN :
       del' = [del EXCEPT ![s] =
         IF done THEN [r EXCEPT !.pc = "delete", !.destroyed = r.publicId, !.cleanup = <<{r.publicId}>>]
         ELSE DeleteCaught([r EXCEPT !.cleanup = <<{r.publicId}>>, !.cleanupFailed = TRUE])]
  /\ UNCHANGED <<delFrame, messages>>

\* cloudinary.uploader.destroy(publicId); its failure is logged and passed over
DeleteDestroy(s) ==
  LET r == del[s] IN
  /\ r.pc = "destroy"
  /\ \E done \in BOOLEAN :
       del' = [del EXCEPT ![s] = [r EXCEPT !.pc = "delete",
                                           !.destroyed = IF done THEN r.publicId ELSE 0,
                                           !.cleanup = <<{r.publicId}>>,
                                           !.cleanupFailed = ~done]]
  /\ UNCHANGED <<delFrame, messages>>

\* findByIdAndDelete, then message_deleted to the receiver's and the sender's room
DeleteRemove(s) ==
  LET r == del[s]
      ack == [r EXCEPT !.pc = "done", !.result = "ok", !.status = IF r.kind = "socket" THEN 0 ELSE 200,
                       !.removed = {m.id : m \in Stored(r.messageId)},
                       !.removedFiles = Files(Stored(r.messageId)),
                       !.emits = <<DeletedEvent(Room(r.receiver), r.messageId),
                                   DeletedEvent(Room(r.user), r.messageId)>>]
  IN /\ r.pc = "delete"
     /\ messages' = messages \ Stored(r.messageId)
     /\ del' = [del EXCEPT ![s] = ack]
     /\ UNCHANGED delFrame

DeleteAwaitRejects(s) ==
  /\ del[s].pc \in {"find", "delete"}
  /\ del' = [del EXCEPT ![s] = DeleteCaught([del[s] EXCEPT !.dbRejected = TRUE])]
  /\ UNCHANGED <<delFrame, messages>>

DeleteRetire(s) ==
  /\ del[s].pc = "done"
  /\ del' = [del EXCEPT ![s] = IdleDelete]
  /\ UNCHANGED <<delFrame, messages>>

(***************************************************************************)
(* DELETE /messages/conversation/:otherUserId                              *)
(***************************************************************************)
IdleClear ==
  [pc |-> "idle", user |-> "", otherUserId |-> "", publicIds |-> {}, cleanup |-> <<>>,
   failedFiles |-> {}, removed |-> {}, removedFiles |-> {}, dbRejected |-> FALSE,
   status |-> 0, message |-> "", emits |-> <<>>]

clearFrame ==
  <<dirVars, nextId, nextFile, clock, send, rd, lastDone, pager, del, presence, pushCall, http, rest>>

ClearedEvent(room, by) ==
  [room |-> room, event |-> "conversation_cleared", clearedBy |-> by,
   to |-> Members(room), open |-> OpenSockets]

ClearStart(u, o) ==
  /\ clear.pc = "idle"
  /\ clear' = IF o = u
              THEN [IdleClear EXCEPT !.pc = "done", !.user = u, !.otherUserId = o, !.status = 400,
                                     !.message = "Invalid other user ID"]
              ELSE [IdleClear EXCEPT !.pc = "find", !.user = u, !.otherUserId = o]
  /\ UNCHANGED <<clearFrame, messages>>

\* the query that collects the public ids of the conversation's voice files
ClearFind ==
  /\ clear.pc = "find"
  /\ LET publicIds == Files(Conversation(clear.user, clear.otherUserId, NoCursor))
     IN clear' = [clear EXCEPT !.publicIds = publicIds,
                               !.pc = IF publicIds # {} THEN "cleanup" ELSE "deleteMany"]
  /\ UNCHANGED <<clearFrame, messages>>

\* cloudinary.api.delete_resources(publicIds): one call, each file's failure
\* logged and passed over
ClearCleanup ==
  /\ clear.pc = "cleanup"
  /\ \E failed \in SUBSET clear.publicIds :
       clear' = [clear EXCEPT !.cleanup = <<clear.publicIds>>, !.failedFiles = failed,
                              !.pc = "deleteMany"]
  /\ UNCHANGED <<clearFrame, messages>>

\* deleteMany, then conversation_cleared to both rooms and the response
ClearDeleteMany ==
  LET gone == Conversation(clear.user, clear.otherUserId, NoCursor) IN
  /\ clear.pc = "deleteMany"
  /\ messages' = messages \ gone
  /\ clear' = [clear EXCEPT !.pc = "done", !.status = 200,
                            !.message = "Conversation cleared successfully",
                            !.removed = {m.id : m \in gone}, !.removedFiles = Files(gone),
                            !.emits = <<ClearedEvent(Room(clear.otherUserId), clear.user),
                                        ClearedEvent(Room(clear.user), clear.user)>>]
  /\ UNCHANGED clearFrame

ClearAwaitRejects ==
  /\ clear.pc \in {"find", "deleteMany"}
  /\ clear' = [clear EXCEPT !.pc = "done", !.status = 500, !.dbRejected = TRUE,
                            !.message = "Failed to clear conversation"]
  /\ UNCHANGED <<clearFrame, messages>>

ClearRetire ==
  /\ clear.pc = "done"
  /\ clear' = IdleClear
  /\ UNCHANGED <<clearFrame, messages>>

(***************************************************************************)
(* GET /messages/conversations                                             *)
(***************************************************************************)
\* read: the collection as the aggregation read it
IdleList == [pc |-> "idle", user |-> "", conversations |-> <<>>, read |-> {}, status |-> 0]

\* the state of the messaging core proper
core ==
  <<dirVars, messages, nextId, nextFile, clock, send, rd, lastDone, pager, del, presence,
    pushCall, http, clear>>

listFrame == <<core, fetch, later>>

\* $match: {$or: [{sender: userId}, {receiver: userId}]}
Touching(u) == {m \in messages : m.sender = u \/ m.receiver = u}

\* the $group key: $cond [{$eq: ["$sender", userId]}, "$receiver", "$sender"]
GroupKey(u, m) == IF m.sender = u THEN m.receiver ELSE m.sender

Group(u, c) == {m \in Touching(u) : GroupKey(u, m) = c}

\* $first of the group after $sort {createdAt: -1}: a message no other of the
\* group is newer than; among equal stamps the store picks
First(M) == {m \in M : \A n \in M : n.createdAt <= m.createdAt}

\* $sum of $cond [{$and: [{$eq: ["$receiver", userId]}, {$eq: ["$read", false]}]}, 1, 0]
UnreadCount(u, M) == Cardinality({m \in M : m.receiver = u /\ ~m.read})

\* the label of the last message, chosen by the variant of the stored document
Label(m) ==
  IF m.isEncrypted THEN "Encrypted message"
  ELSE IF m.voiceMessage THEN "Voice message"
  ELSE m.text

\* one entry of the response: the group, joined with the user of its key
Entry(u, c, last) ==
  [id |-> c, lastMessage |-> last.id, createdAt |-> last.createdAt, sender |-> last.sender,
   text |-> Label(last), encryptedMessage |-> last.encryptedMessage, nonce |-> last.nonce,
   unreadCount |-> UnreadCount(u, Group(u, c))]

\* the keys that pass $lookup and $unwind: those of an existing user
Keys(u) == {GroupKey(u, m) : m \in Touching(u)} \cap Users

\* the lists the pipeline can produce: one entry per key, sorted by
\* lastMessage.createdAt descending, equal stamps in any order
Aggregate(u) ==
  LET E == UNION {{Entry(u, c, l) : l \in First(Group(u, c))} : c \in Keys(u)}
      n == Cardinality(Keys(u))
  IN {q \in [1 .. n -> E] :
        \A i, j \in 1 .. n : i < j => q[i].id # q[j].id /\ q[i].createdAt >= q[j].createdAt}

ListStart(u) ==
  /\ listing.pc = "idle"
  /\ listing' = [IdleList EXCEPT !.pc = "aggregate", !.user = u]
  /\ UNCHANGED listFrame

\* the aggregation resolves: res.json({conversations})
ListAggregate ==
  /\ listing.pc = "aggregate"
  /\ \E q \in Aggregate(listing.user) :
       listing' = [listing EXCEPT !.pc = "done", !.conversations = q, !.read = messages,
                                   !.status = 200]
  /\ UNCHANGED listFrame

\* the aggregation rejects: 500
ListAwaitRejects ==
  /\ listing.pc = "aggregate"
  /\ listing' = [listing EXCEPT !.pc = "done", !.status = 500]
  /\ UNCHANGED listFrame

ListRetire ==
  /\ listing.pc = "done"
  /\ listing' = IdleList
  /\ UNCHANGED listFrame

(***************************************************************************)
(* GET /messages/:otherUserId against a conversation of any length: the    *)
(* limit of the query string and the number of messages returned           *)
(***************************************************************************)
\* req.query.limit: absent, a string parseInt reads no number from, or a
\* string it reads the integer v from
NoLimit == [type |-> "absent", v |-> 0]
JunkLimit == [type |-> "junk", v |-> 0]
IntLimit(v) == [type |-> "int", v |-> v]

\* Math.min(parseInt(req.query.limit, 10) || LIMIT, 100): NaN and 0 are falsy
QueryLimit(raw) == IF raw.type = "int" THEN PageLimit(raw.v) ELSE PageLimit(0)

IdleFetch == [pc |-> "idle", size |-> 0, raw |-> NoLimit, limit |-> 0, returned |-> 0, hasMore |-> FALSE]

fetchFrame == <<core, listing, later>>

\* the request, the conversation holding `size` messages when the query runs
FetchPage(size, raw) ==
  /\ fetch.pc = "idle"
  /\ LET limit == QueryLimit(raw)
         n == Min(Fetched(limit), size)
     IN fetch' = [pc |-> "done", size |-> size, raw |-> raw, limit |-> limit, returned |-> n,
                  hasMore |-> (n = limit)]
  /\ UNCHANGED fetchFrame

FetchRetire ==
  /\ fetch.pc = "done"
  /\ fetch' = IdleFetch
  /\ UNCHANGED fetchFrame

(***************************************************************************)
(* onlineStore.js: the presence store                                      *)
(***************************************************************************)
\* the values a caller can pass as a user id: the id as a string, or as the
\* ObjectId it is stored as
RawIds == [type : {"string", "objectId"}, v : Users]

\* String(userId): the key the store keeps and looks up
String(userId) == [type |-> "string", v |-> userId.v]

\* a user id that already is a string, as the socket and the routes hold it
Str(u) == [type |-> "string", v |-> u]

\* the store keeping the value as passed
addRaw(userId) == onlineUsers' = onlineUsers \cup {userId}

add(userId) == onlineUsers' = onlineUsers \cup {String(userId)}

remove(userId) == onlineUsers' = onlineUsers \ {String(userId)}

has(userId) == String(userId) \in onlineUsers

\* for (const id of ids || []) out[String(id)] = onlineUsers.has(String(id))
getStatus(ids) == [k \in {String(ids[i]) : i \in DOMAIN ids} |-> k \in onlineUsers]

NoOp == [op |-> "none", arg |-> Str("u1"), ids |-> <<>>, before |-> {}, out |-> <<>>]

storeFrame == <<dirVars, messages, nextId, nextFile, clock, send, rd, lastDone, pager, del, calls>>

CallAdd(x) ==
  /\ add(x)
  /\ lastOp' = [NoOp EXCEPT !.op = "add", !.arg = x, !.before = onlineUsers]
  /\ UNCHANGED <<storeFrame, conns, lastSeen>>

CallRemove(x) ==
  /\ remove(x)
  /\ lastOp' = [NoOp EXCEPT !.op = "remove", !.arg = x, !.before = onlineUsers]
  /\ UNCHANGED <<storeFrame, conns, lastSeen>>

CallGetStatus(ids) ==
  /\ lastOp' = [NoOp EXCEPT !.op = "getStatus", !.ids = ids, !.before = onlineUsers, !.out = getStatus(ids)]
  /\ UNCHANGED <<storeFrame, onlineUsers, conns, lastSeen>>

(***************************************************************************)
(* The socket connections: the connection and the disconnect handler       *)
(***************************************************************************)
\* a handshake token: absent, or a JWT with the key that signed it, whether its
\* exp has passed, and the id of its payload (NoId when the payload has none)
NoJwt == [present |-> FALSE, signedBy |-> "", expired |-> FALSE, id |-> NoId]
Jwt(key, expired, id) == [present |-> TRUE, signedBy |-> key, expired |-> expired, id |-> id]

\* process.env.JWT_SECRET where it is configured
JWT_SECRET == "secret"

\* a token the server issued to u
GoodJwt(u) == Jwt(JWT_SECRET, FALSE, u)

\* what a client presents, and whether the server has its secret configured
Credentials(auth, query, configured) == [auth |-> auth, query |-> query, configured |-> configured]
NoCredentials == Credentials(NoJwt, NoJwt, TRUE)

\* stamp is the new Date() of the awaited lastSeen update, taken when the update
\* is issued; ticking and tick are a heartbeat update in flight and its Date;
\* stamped tells that the disconnect update was applied
ClosedConn ==
  [pc |-> "closed", user |-> "", joined |-> FALSE, room |-> <<>>, interval |-> FALSE,
   cred |-> NoCredentials, error |-> "", stamp |-> 0, ticking |-> FALSE, tick |-> 0,
   stamped |-> FALSE]

\* a connection is open from socket.join to the transport's disconnect
Open(c) == conns[c].joined

\* socket.handshake?.auth?.token || socket.handshake?.query?.token
HandshakeToken(cred) == IF cred.auth.present THEN cred.auth ELSE cred.query

\* jwt.verify(token, secret): throws on a wrong signature or a passed exp
VerifyThrows(token, secret) == token.signedBy # secret \/ token.expired

\* the middleware that lets every presented token through
authMiddlewareUnverified(cred) ==
  IF ~HandshakeToken(cred).present THEN "Unauthorized: no token"
  ELSE IF ~cred.configured THEN "Server misconfigured"
  ELSE IF HandshakeToken(cred).id = NoId THEN "Unauthorized"
  ELSE ""

\* authMiddleware: the error passed to next, "" when next() is called bare
authMiddleware(cred) ==
  IF ~HandshakeToken(cred).present THEN "Unauthorized: no token"
  ELSE IF ~cred.configured THEN "Server misconfigured"
  ELSE IF VerifyThrows(HandshakeToken(cred), JWT_SECRET) THEN "Unauthorized: invalid token"
  ELSE IF HandshakeToken(cred).id = NoId THEN "Unauthorized"
  ELSE ""

\* a handshake: the middleware refuses it, or the connection callback joins the
\* room, adds to the store, and awaits the lastSeen update
Handshake(c, cred) ==
  /\ conns[c] = ClosedConn
  /\ IF authMiddleware(cred) # ""
     THEN /\ conns' = [conns EXCEPT ![c] = [ClosedConn EXCEPT !.pc = "rejected", !.cred = cred,
                                                             !.error = authMiddleware(cred)]]
          /\ UNCHANGED onlineUsers
     ELSE /\ add(Str(HandshakeToken(cred).id))
          /\ conns' = [conns EXCEPT ![c] = [pc |-> "stamp", user |-> HandshakeToken(cred).id,
                                            joined |-> TRUE, room |-> Room(HandshakeToken(cred).id),
                                            interval |-> FALSE, cred |-> cred, error |-> "",
                                            stamp |-> clock, ticking |-> FALSE, tick |-> 0,
                                            stamped |-> FALSE]]
  /\ UNCHANGED <<storeFrame, lastSeen, lastOp>>

\* the handshake of a client holding a valid token of u
Connect(c, u) == Handshake(c, Credentials(Jwt(JWT_SECRET, FALSE, u), NoJwt, TRUE))

\* the client of a refused handshake goes away
Refused(c) ==
  /\ conns[c].pc = "rejected"
  /\ conns' = [conns EXCEPT ![c] = ClosedConn]
  /\ UNCHANGED <<storeFrame, onlineUsers, lastSeen, lastOp>>

\* the update resolved: start the heartbeat and register the handlers
ConnStamp(c) ==
  /\ conns[c].pc = "stamp"
  /\ lastSeen' = [lastSeen EXCEPT ![conns[c].user] = conns[c].stamp]
  /\ conns' = [conns EXCEPT ![c] = [@ EXCEPT !.pc = IF conns[c].joined THEN "active" ELSE "orphan",
                                             !.interval = TRUE, !.stamp = 0]]
  /\ UNCHANGED <<storeFrame, onlineUsers, lastOp>>

\* the update rejected: the connection callback ends without the handlers
ConnStampRejects(c) ==
  /\ conns[c].pc = "stamp"
  /\ conns' = [conns EXCEPT ![c] = [@ EXCEPT !.pc = IF conns[c].joined THEN "bare" ELSE "orphan",
                                             !.stamp = 0]]
  /\ UNCHANGED <<storeFrame, onlineUsers, lastSeen, lastOp>>

\* the heartbeat timer fires: the update is issued with the Date of the tick
Heartbeat(c) ==
  /\ conns[c].interval
  /\ ~conns[c].ticking
  /\ has(Str(conns[c].user))
  /\ conns' = [conns EXCEPT ![c] = [@ EXCEPT !.ticking = TRUE, !.tick = clock]]
  /\ UNCHANGED <<storeFrame, onlineUsers, lastSeen, lastOp>>

\* the update of a tick is applied, or rejects; nothing orders it against the
\* updates issued after it
HeartbeatLands(c) ==
  /\ conns[c].ticking
  /\ \E ok \in BOOLEAN :
       lastSeen' = IF ok THEN [lastSeen EXCEPT ![conns[c].user] = conns[c].tick] ELSE lastSeen
  /\ conns' = [conns EXCEPT ![c] = IF conns[c].pc = "closed" THEN ClosedConn
                                   ELSE [@ EXCEPT !.ticking = FALSE, !.tick = 0]]
  /\ UNCHANGED <<storeFrame, onlineUsers, lastOp>>

\* the transport closes; the "disconnect" handler runs where it is registered:
\* clearInterval, onlineStore.remove(userId), then the lastSeen update
Disconnect(c) ==
  /\ Open(c)
  /\ IF conns[c].pc = "active"
     THEN /\ remove(Str(conns[c].user))
          /\ conns' = [conns EXCEPT ![c] = [@ EXCEPT !.pc = "closing", !.joined = FALSE,
                                                     !.interval = FALSE, !.stamp = clock]]
     ELSE /\ conns' = [conns EXCEPT ![c] = [@ EXCEPT !.joined = FALSE,
                                                     !.pc = IF @ = "bare" THEN "orphan" ELSE @]]
          /\ UNCHANGED onlineUsers
  /\ UNCHANGED <<storeFrame, lastSeen, lastOp>>

\* the disconnect update is applied, or rejects; a tick still in flight keeps
\* the connection's record until it lands
DisconnectStamp(c) ==
  /\ conns[c].pc = "closing"
  /\ \E ok \in BOOLEAN :
       /\ lastSeen' = IF ok THEN [lastSeen EXCEPT ![conns[c].user] = conns[c].stamp] ELSE lastSeen
       /\ conns' = [conns EXCEPT ![c] = IF conns[c].ticking
                                        THEN [ClosedConn EXCEPT !.user = conns[c].user,
                                                                !.stamp = conns[c].stamp,
                                                                !.ticking = TRUE,
                                                                !.tick = conns[c].tick,
                                                                !.stamped = ok]
                                        ELSE ClosedConn]
  /\ UNCHANGED <<storeFrame, onlineUsers, lastOp>>

\* an inbound event reaches its listener only on a connection whose callback
\* got as far as registering the listeners
Listening(c) == conns[c].joined /\ conns[c].pc = "active"

OnSendMessage(c, s, rid, p) == Listening(c) /\ SocketStart(s, conns[c].user, rid, p)

OnMarkMessagesRead(c, s, o) == Listening(c) /\ MarkStart(s, conns[c].user, o)

OnDeleteMessage(c, s, id) == Listening(c) /\ SocketDeleteStart(s, conns[c].user, id)

(***************************************************************************)
(* auth.middleware.js: protectRoutes                                       *)
(***************************************************************************)
\* the Authorization header: absent, or a scheme and what follows it
NoHeader == [present |-> FALSE, scheme |-> "", token |-> NoJwt]
Header(scheme, token) == [present |-> TRUE, scheme |-> scheme, token |-> token]

\* what a request carries, and whether the server has its secret configured
Request(cookie, header, configured) == [cookie |-> cookie, header |-> header, configured |-> configured]

IdleHttp ==
  [pc |-> "idle", req |-> Request(NoJwt, NoHeader, TRUE), userId |-> NoId, user |-> NoId,
   handler |-> FALSE, status |-> 0, message |-> ""]

httpFrame ==
  <<dirVars, messages, nextId, nextFile, clock, send, rd, lastDone, pager, del, presence,
    pushCall, clear, rest>>

\* req.cookies?.token, else the value after "Bearer "
RequestToken(req) ==
  IF req.cookie.present THEN req.cookie
  ELSE IF req.header.present /\ req.header.scheme = "Bearer" THEN req.header.token
  ELSE NoJwt

\* the error jwt.verify throws, "" when it returns the payload
VerifyError(token, secret) ==
  IF token.signedBy # secret THEN "JsonWebTokenError"
  ELSE IF token.expired THEN "TokenExpiredError"
  ELSE ""

Answer(r, st, msg) == [r EXCEPT !.pc = "done", !.status = st, !.message = msg]

\* the catch block of protectRoutes
AuthCaught(r, name) ==
  Answer(r, 401, IF name = "TokenExpiredError" THEN "Unauthorized: token expired"
                 ELSE "Unauthorized: invalid token")

\* up to the await of userModel.findById
ProtectRoutes(req) ==
  /\ http.pc = "idle"
  /\ LET r == [IdleHttp EXCEPT !.req = req]
         token == RequestToken(req)
     IN http' =
          IF ~token.present THEN Answer(r, 401, "Unauthorized")
          ELSE IF ~req.configured THEN Answer(r, 500, "Server misconfigured")
          ELSE IF VerifyError(token, JWT_SECRET) # "" THEN AuthCaught(r, VerifyError(token, JWT_SECRET))
          ELSE IF token.id = NoId THEN Answer(r, 401, "Unauthorized")
          ELSE [r EXCEPT !.pc = "findUser", !.userId = token.id]
  /\ UNCHANGED httpFrame

\* the user is found: req.user = user; next()
ProtectFindUser ==
  /\ http.pc = "findUser"
  /\ http' = IF http.userId \in Users
             THEN [http EXCEPT !.pc = "done", !.user = http.userId, !.handler = TRUE]
             ELSE Answer(http, 401, "Unauthorized: user not found")
  /\ UNCHANGED httpFrame

\* findById rejects
ProtectAwaitRejects ==
  /\ http.pc = "findUser"
  /\ http' = AuthCaught(http, "MongoError")
  /\ UNCHANGED httpFrame

ProtectRetire ==
  /\ http.pc = "done"
  /\ http' = IdleHttp
  /\ UNCHANGED httpFrame

(***************************************************************************)
(* pushNotifications.js: sendExpoPush(to, {title, body, data})             *)
(***************************************************************************)
\* "ExponentPushToken", character by character
Prefix == <<"E", "x", "p", "o", "n", "e", "n", "t", "P", "u", "s", "h", "T", "o", "k", "e", "n">>

\* a value passed as a token: a string (its characters), a number or null
StringToken(chars) == [type |-> "string", chars |-> chars, num |-> 0]
NumberToken(n) == [type |-> "number", chars |-> <<>>, num |-> n]
NullToken == [type |-> "null", chars |-> <<>>, num |-> 0]

TokenValues ==
  { StringToken(Prefix \o <<"[", "a", "]">>), StringToken(Prefix \o <<"[", "b", "]">>),
    StringToken(Prefix), StringToken(<<"e">> \o Prefix), StringToken(SubSeq(Prefix, 1, 16)),
    StringToken(<<"e", "x", "p", "o">>), StringToken(<<>>),
    NumberToken(0), NumberToken(7), NullToken }

\* the truthiness of a value
Truthy(v) ==
  CASE v.type = "string" -> v.chars # <<>>
    [] v.type = "number" -> v.num # 0
    [] OTHER -> FALSE

\* String.prototype.startsWith
startsWith(chars, prefix) ==
  Len(chars) >= Len(prefix) /\ SubSeq(chars, 1, Len(prefix)) = prefix

\* String.prototype.includes, in the filter's place
ValidTokenIncludes(token) ==
  /\ Truthy(token) /\ token.type = "string"
  /\ \E i \in 0 .. Len(token.chars) :
       i + Len(Prefix) <= Len(token.chars) /\ SubSeq(token.chars, i + 1, i + Len(Prefix)) = Prefix

\* token && typeof token === "string" && token.startsWith("ExponentPushToken")
ValidToken(token) == Truthy(token) /\ token.type = "string" /\ startsWith(token.chars, Prefix)

\* Array.prototype.filter
RECURSIVE Filter(_)
Filter(q) ==
  IF q = <<>> THEN <<>>
  ELSE IF ValidToken(q[1]) THEN <<q[1]>> \o Filter(SubSeq(q, 2, Len(q)))
  ELSE Filter(SubSeq(q, 2, Len(q)))

MaxTokens == 2

\* the argument `to`: one value, or an array of values
PushTargets ==
  [isArray : {FALSE}, items : [1 .. 1 -> TokenValues]]
    \cup [isArray : {TRUE}, items : UNION {[1 .. n -> TokenValues] : n \in 0 .. MaxTokens}]

\* what the Expo API can answer to one request
FetchOutcomes == {"ok", "httpError", "statusError", "throws", "badJson", "noMessage"}

\* an exception inside the callback's try block: fetch rejects, or the error
\* entry of the response has no message for errorMsg.includes
Throws(o) == o \in {"throws", "noMessage"}

\* {success: true}: an OK response whose body, {} when it does not parse,
\* carries no error status
Success(o) == o \in {"ok", "badJson"}

\* a loop that awaits each request before starting the next, with no catch
\* around the single request
SendInTurn(tokens, out) ==
  [i \in DOMAIN tokens |->
     LET stopped == \E j \in 1 .. i - 1 : Throws(out[j])
     IN [to |-> tokens[i], fetched |-> ~stopped, success |-> ~stopped /\ Success(out[i]),
         rejected |-> ~stopped /\ Throws(out[i])]]

\* validTokens.map(async (token, index) => { try { ... } catch (e) { ... } }):
\* every callback runs to its fetch, and its catch turns an exception into
\* {success: false}
SendPromises(tokens, out) ==
  [i \in DOMAIN tokens |->
     [to |-> tokens[i], fetched |-> TRUE, success |-> Success(out[i]), rejected |-> FALSE]]

IdlePush == [pc |-> "idle", to |-> [isArray |-> TRUE, items |-> <<>>], requests |-> <<>>,
             results |-> <<>>, threw |-> FALSE, sent |-> <<>>, outcomes |-> <<>>, caught |-> FALSE]

pushFrame == <<dirVars, messages, nextId, nextFile, clock, send, rd, lastDone, pager, del, presence,
               http, clear, rest>>

\* the call up to its first suspension: the early returns, the filter, and one
\* fetch per valid token
SendExpoPush(to) ==
  /\ pushCall.pc = "idle"
  /\ LET call == [IdlePush EXCEPT !.to = to]
         validTokens == Filter(to.items)
     IN pushCall' =
          IF ~to.isArray /\ ~Truthy(to.items[1]) THEN [call EXCEPT !.pc = "done"]
          ELSE IF Len(validTokens) = 0 THEN [call EXCEPT !.pc = "done"]
          ELSE [call EXCEPT !.pc = "sending", !.requests = validTokens]
  /\ UNCHANGED pushFrame

\* every request settles; each failure is caught per token and logged, and a
\* rejection of Promise.all ends in the catch block of the call
PushSettle ==
  /\ pushCall.pc = "sending"
  /\ \E out \in [DOMAIN pushCall.requests -> FetchOutcomes] :
       LET sent == SendPromises(pushCall.requests, out)
       IN pushCall' = [pushCall EXCEPT !.pc = "done", !.sent = sent, !.outcomes = out,
                                       !.results = [i \in DOMAIN sent |-> sent[i].success],
                                       !.caught = \E i \in DOMAIN sent : sent[i].rejected]
  /\ UNCHANGED pushFrame

PushReturn ==
  /\ pushCall.pc = "done"
  /\ pushCall' = IdlePush
  /\ UNCHANGED pushFrame

(***************************************************************************)
(* socket "typing_start" and "typing_stop"                                 *)
(***************************************************************************)
IdleTyping == [pc |-> "idle", event |-> "", user |-> "", receiverId |-> NoId, emits |-> <<>>]

typingFrame == <<core, listing, fetch, keyUpload, social>>

\* io.to(receiverRoom).emit(ev, {userId})
TypingEvent(room, ev, u) ==
  [room |-> room, event |-> ev, userId |-> u, to |-> Members(room), open |-> OpenSockets]

\* a handler that also echoes the event to the sender's own room
RelayEchoed(u, ev, rid) ==
  IF rid = NoId \/ rid = u THEN <<>>
  ELSE <<TypingEvent(Room(rid), ev, u), TypingEvent(Room(u), ev, u)>>

\* if (!receiverId || receiverId === userId) return; then one emit to the
\* room named from the receiverId
Relay(u, ev, rid) ==
  IF rid = NoId \/ rid = u THEN <<>>
  ELSE <<TypingEvent(Room(rid), ev, u)>>

OnTypingStart(c, rid) ==
  /\ Listening(c) /\ typing.pc = "idle"
  /\ typing' = [pc |-> "done", event |-> "typing_start", user |-> conns[c].user,
                receiverId |-> rid, emits |-> Relay(conns[c].user, "typing_start", rid)]
  /\ UNCHANGED typingFrame

OnTypingStop(c, rid) ==
  /\ Listening(c) /\ typing.pc = "idle"
  /\ typing' = [pc |-> "done", event |-> "typing_stop", user |-> conns[c].user,
                receiverId |-> rid, emits |-> Relay(conns[c].user, "typing_stop", rid)]
  /\ UNCHANGED typingFrame

TypingRetire ==
  /\ typing.pc = "done"
  /\ typing' = IdleTyping
  /\ UNCHANGED typingFrame

(***************************************************************************)
(* POST /users/upload-public-key                                           *)
(***************************************************************************)
\* req.body.publicKey: absent, a number, or a string, given by the text between
\* its leading and trailing white space and by whether it has such white space
NoBodyKey == [type |-> "undefined", text |-> "", padded |-> FALSE, num |-> 0]
NumberKey(n) == [type |-> "number", text |-> "", padded |-> FALSE, num |-> n]
StringKey(text, padded) == [type |-> "string", text |-> text, padded |-> padded, num |-> 0]

\* nacl.box.publicKeyLength
publicKeyLength == 32

\* the texts that are the base64 of 32 bytes, and one that is the base64 of 16
Base64Of32 == {"K1", "K2", "K3"}
ShortKey == "short"

\* Buffer.from(base64String, "base64").length: white space is skipped
base64ToBuffer(text) ==
  IF text \in Base64Of32 THEN 32 ELSE IF text = ShortKey THEN 16 ELSE 0

\* !publicKey
Falsy(k) ==
  CASE k.type = "string" -> k.text = "" /\ ~k.padded
    [] k.type = "number" -> k.num = 0
    [] OTHER -> TRUE

\* a validation that accepts every key it is given
validateAnyKey(k) == ~Falsy(k)

\* if (!publicKeyBase64) return false; the decoded length is 32
validatePublicKey(k) == ~Falsy(k) /\ base64ToBuffer(k.text) = publicKeyLength

\* String.prototype.trim
trim(k) == k.text

IdleUpload ==
  [pc |-> "idle", user |-> "", body |-> NoBodyKey, status |-> 0, message |-> "",
   keyBefore |-> NoKey, flagBefore |-> FALSE]

uploadFrame ==
  <<blockedUsers, e2eeEnabled, expoPushToken, messages, nextId, nextFile, clock, send, rd,
    lastDone, pager, del, presence, pushCall, http, clear, listing, fetch, typing, social>>

\* the handler up to its await
UploadStart(u, k) ==
  /\ keyUpload.pc = "idle"
  /\ LET r == [IdleUpload EXCEPT !.user = u, !.body = k, !.keyBefore = publicKey[u],
                                 !.flagBefore = e2eeEnabled[u]]
     IN keyUpload' =
          IF Falsy(k) \/ k.type # "string"
          THEN [r EXCEPT !.pc = "done", !.status = 400,
                         !.message = "Public key is required and must be a string"]
          ELSE IF ~validatePublicKey(k)
          THEN [r EXCEPT !.pc = "done", !.status = 400, !.message = "Invalid public key format"]
          ELSE [r EXCEPT !.pc = "update"]
  /\ UNCHANGED <<uploadFrame, publicKey>>

\* findByIdAndUpdate(userId, {$set: {publicKey: publicKey.trim()}})
UploadUpdate ==
  /\ keyUpload.pc = "update"
  /\ publicKey' = [publicKey EXCEPT ![keyUpload.user] = trim(keyUpload.body)]
  /\ keyUpload' = [keyUpload EXCEPT !.pc = "done", !.status = 200,
                                    !.message = "Public key uploaded successfully"]
  /\ UNCHANGED uploadFrame

UploadAwaitRejects ==
  /\ keyUpload.pc = "update"
  /\ keyUpload' = [keyUpload EXCEPT !.pc = "done", !.status = 500,
                                    !.message = "Failed to upload public key"]
  /\ UNCHANGED <<uploadFrame, publicKey>>

UploadRetire ==
  /\ keyUpload.pc = "done"
  /\ keyUpload' = IdleUpload
  /\ UNCHANGED <<uploadFrame, publicKey>>

(***************************************************************************)
(* friendRoutes.js: request, accept, reject, cancel, unfriend              *)
(***************************************************************************)
FrSlots == {1, 2}

MaxFriends == 2

IdleFriend ==
  [pc |-> "idle", kind |-> "", user |-> "", other |-> NoId, doc |-> 0, set |-> "",
   saw |-> "", prior |-> "", status |-> 0, message |-> ""]

friendFrame == <<core, listing, fetch, typing, keyUpload>>

FriendRecord(id, from, to, st) == [id |-> id, sender |-> from, receiver |-> to, status |-> st]

\* res.status(st).json({message})
Respond(r, st, msg) == [r EXCEPT !.pc = "done", !.status = st, !.message = msg]

\* {$or: [{sender: a, receiver: b}, {sender: b, receiver: a}]}
EitherWay(a, b) ==
  {f \in friends : (f.sender = a /\ f.receiver = b) \/ (f.sender = b /\ f.receiver = a)}

\* {sender: a, receiver: b, status: "pending"}
PendingFrom(a, b) == {f \in friends : f.sender = a /\ f.receiver = b /\ f.status = "pending"}

\* the handler up to its first await
FriendStart(s, kind, u, o) ==
  /\ fr[s].pc = "idle"
  /\ LET r == [IdleFriend EXCEPT !.kind = kind, !.user = u, !.other = o]
     IN fr' = [fr EXCEPT ![s] =
          IF o = NoId THEN Respond(r, 400, "ID is required")
          ELSE IF kind = "request" /\ u = o
          THEN Respond(r, 400, "Cannot send friend request to yourself")
          ELSE [r EXCEPT !.pc = IF kind = "request" THEN "findUser" ELSE "find"]]
  /\ UNCHANGED <<friendFrame, friends, nextFriend>>

\* POST /friends/request: userModel.findById(receiverId)
RequestFindUser(s) ==
  LET r == fr[s] IN
  /\ r.pc = "findUser"
  /\ fr' = [fr EXCEPT ![s] = IF r.other \notin Users THEN Respond(r, 404, "User not found")
                             ELSE [r EXCEPT !.pc = "find"]]
  /\ UNCHANGED <<friendFrame, friends, nextFriend>>

\* POST /friends/request: findOne either way, and the branches on what it returns
RequestFind(s) ==
  LET r == fr[s] IN
  /\ r.pc = "find" /\ r.kind = "request"
  /\ \/ /\ EitherWay(r.user, r.other) = {}
        /\ fr' = [fr EXCEPT ![s] = [r EXCEPT !.pc = "create"]]
     \/ \E f \in EitherWay(r.user, r.other) :
          fr' = [fr EXCEPT ![s] =
            IF f.status = "accepted" THEN Respond(r, 400, "You are already friends")
            ELSE IF f.status = "pending" /\ f.sender = r.user
            THEN Respond(r, 400, "Friend request already sent")
            ELSE IF f.status = "pending"
            THEN [r EXCEPT !.pc = "save", !.doc = f.id, !.set = "accepted", !.saw = f.status]
            ELSE [r EXCEPT !.pc = "create", !.saw = f.status]]
  /\ UNCHANGED <<friendFrame, friends, nextFriend>>

\* friendModel.create under the unique index {sender: 1, receiver: 1}
RequestCreate(s) ==
  LET r == fr[s] IN
  /\ r.pc = "create"
  /\ IF \E f \in friends : f.sender = r.user /\ f.receiver = r.other
     THEN /\ fr' = [fr EXCEPT ![s] = Respond(r, 400, "Friend request already exists")]
          /\ UNCHANGED <<friends, nextFriend>>
     ELSE /\ nextFriend <= MaxFriends
          /\ friends' = friends \cup {FriendRecord(nextFriend, r.user, r.other, "pending")}
          /\ nextFriend' = nextFriend + 1
          /\ fr' = [fr EXCEPT ![s] = [Respond(r, 201, "Friend request sent successfully")
                                        EXCEPT !.doc = nextFriend]]
  /\ UNCHANGED friendFrame

\* POST /friends/accept and /reject: findOne({sender: senderId, receiver: me, status: "pending"})
AnswerFind(s) ==
  LET r == fr[s] IN
  /\ r.pc = "find" /\ r.kind \in {"accept", "reject"}
  /\ \/ /\ PendingFrom(r.other, r.user) = {}
        /\ fr' = [fr EXCEPT ![s] = Respond(r, 404, "Friend request not found")]
     \/ \E f \in PendingFrom(r.other, r.user) :
          fr' = [fr EXCEPT ![s] =
            [r EXCEPT !.pc = "save", !.doc = f.id, !.saw = f.status,
                      !.set = IF r.kind = "accept" THEN "accepted" ELSE "rejected"]]
  /\ UNCHANGED <<friendFrame, friends, nextFriend>>

\* document.save(): updateOne({_id}, {$set: {status}})
Save(id, st) == {IF f.id = id THEN [f EXCEPT !.status = st] ELSE f : f \in friends}

\* the save of the three routes that set a status; a document deleted in the
\* meantime makes save throw, answered 500 by the catch block
FriendSave(s) ==
  LET r == fr[s] IN
  /\ r.pc = "save"
  /\ IF \E f \in friends : f.id = r.doc
     THEN /\ friends' = Save(r.doc, r.set)
          /\ fr' = [fr EXCEPT ![s] =
               [Respond(r, 200, IF r.set = "accepted" THEN "Friend request accepted"
                               ELSE "Friend request rejected")
                  EXCEPT !.prior = (CHOOSE f \in friends : f.id = r.doc).status]]
     ELSE /\ fr' = [fr EXCEPT ![s] = Respond(r, 500, "Internal server error")]
          /\ UNCHANGED friends
  /\ UNCHANGED <<friendFrame, nextFriend>>

\* POST /friends/cancel: the caller's own pending request;
\* POST /friends/unfriend: the accepted record of the pair, either way
RemoveFind(s) ==
  LET r == fr[s]
      found == IF r.kind = "cancel" THEN PendingFrom(r.user, r.other)
               ELSE {f \in EitherWay(r.user, r.other) : f.status = "accepted"}
  IN /\ r.pc = "find" /\ r.kind \in {"cancel", "unfriend"}
     /\ \/ /\ found = {}
           /\ fr' = [fr EXCEPT ![s] =
                Respond(r, 404, IF r.kind = "cancel" THEN "Friend request not found"
                               ELSE "Friendship not found")]
        \/ \E f \in found :
             fr' = [fr EXCEPT ![s] = [r EXCEPT !.pc = "delete", !.doc = f.id, !.saw = f.status]]
     /\ UNCHANGED <<friendFrame, friends, nextFriend>>

\* findByIdAndDelete(_id)
FriendDelete(s) ==
  LET r == fr[s] IN
  /\ r.pc = "delete"
  /\ friends' = {f \in friends : f.id # r.doc}
  /\ fr' = [fr EXCEPT ![s] =
       Respond(r, 200, IF r.kind = "cancel" THEN "Friend request cancelled"
                      ELSE "Unfriended successfully")]
  /\ UNCHANGED <<friendFrame, nextFriend>>

\* an await of the handler rejects: the catch block answers 500
FriendAwaitRejects(s) ==
  /\ fr[s].pc \in {"findUser", "find", "create", "save", "delete"}
  /\ fr' = [fr EXCEPT ![s] = Respond(fr[s], 500, "Internal server error")]
  /\ UNCHANGED <<friendFrame, friends, nextFriend>>

FriendRetire(s) ==
  /\ fr[s].pc = "done"
  /\ fr' = [fr EXCEPT ![s] = IdleFriend]
  /\ UNCHANGED <<friendFrame, friends, nextFriend>>

(***************************************************************************)
(* The directory at start: u1 has a key on file, E2EE enabled and a push   *)
(* token; u2 and u3 are accounts with the schema's defaults                *)
(***************************************************************************)
Init ==
  /\ blockedUsers = [u \in Users |-> {}]
  /\ e2eeEnabled = [u \in Users |-> u = "u1"]
  /\ publicKey = [u \in Users |-> IF u = "u1" THEN "K1" ELSE NoKey]
  /\ expoPushToken = [u \in Users |-> IF u = "u1" THEN "ExponentPushToken[a]" ELSE NoToken]
  /\ messages = {}
  /\ nextId = 1
  /\ nextFile = 1
  /\ clock = 0
  /\ send = [s \in Slots |-> IdleSend]
  /\ rd = [s \in RdSlots |-> IdleRead]
  /\ lastDone = [u \in Users |-> [v \in Users |-> 0]]
  /\ pager = IdlePager
  /\ del = [s \in DelSlots |-> IdleDelete]
  /\ onlineUsers = {}
  /\ conns = [c \in ConnIds |-> ClosedConn]
  /\ lastSeen = [u \in Users |-> 0]
  /\ lastOp = NoOp
  /\ pushCall = IdlePush
  /\ http = IdleHttp
  /\ clear = IdleClear
  /\ listing = IdleList
  /\ fetch = IdleFetch
  /\ typing = IdleTyping
  /\ keyUpload = IdleUpload
  /\ friends = {}
  /\ nextFriend = 1
  /\ fr = [s \in FrSlots |-> IdleFriend]

SendSteps(s) ==
  \/ SocketFindReceiver(s) \/ SocketFindSender(s) \/ SocketCreate(s)
  \/ SocketPopulate(s) \/ SocketFindPushToken(s)
  \/ PostFindReceiver(s) \/ PostFindSender(s) \/ PostFindSenderKey(s) \/ PostCreate(s)
  \/ PostPopulate(s) \/ PostFindPushToken(s)
  \/ VoiceFindReceiver(s) \/ VoiceFindSender(s) \/ VoiceUpload(s) \/ VoiceCreate(s)
  \/ VoicePopulate(s) \/ VoiceFindPushToken(s)
  \/ EncVoiceFindReceiver(s) \/ EncVoiceFindSender(s) \/ EncVoiceCreate(s)
  \/ EncVoicePopulate(s) \/ EncVoiceFindPushToken(s)
  \/ SendAwaitRejects(s) \/ SendRetire(s)

Next ==
  \/ \E s \in Slots, u \in SendUsers, rid \in ReceiverIds, p \in MessagePayloads : SocketStart(s, u, rid, p)
  \/ \E s \in Slots, u \in SendUsers, rid \in ReceiverIds, p \in MessagePayloads : PostStart(s, u, rid, p)
  \/ \E s \in Slots, u \in SendUsers, rid \in ReceiverIds, f \in BOOLEAN : VoiceStart(s, u, rid, f)
  \/ \E s \in Slots, u \in SendUsers, rid \in ReceiverIds, p \in EncVoicePayloads : EncVoiceStart(s, u, rid, p)
  \/ \E s \in Slots : SendSteps(s)
  \/ \E u \in SendUsers, v \in SendUsers : Block(u, v)
  \/ \E u \in SendUsers, v \in SendUsers : Unblock(u, v)

Spec == Init /\ [][Next]_vars

(***************************************************************************)
(* The history specification: well-formed sends between u1 and u2 through  *)
(* the socket and POST /messages, the clock, read requests and a paging    *)
(* client                                                                  *)
(***************************************************************************)
HistoryPayloads ==
  {Payload("", "", TRUE, NoKey), Payload("c1", "n1", FALSE, "K2"), Payload("c1", "n1", FALSE, NoKey)}

SocketSteps(s) ==
  \/ SocketFindReceiver(s) \/ SocketFindSender(s) \/ SocketCreate(s)
  \/ SocketPopulate(s) \/ SocketFindPushToken(s)

PostSteps(s) ==
  \/ PostFindReceiver(s) \/ PostFindSender(s) \/ PostFindSenderKey(s) \/ PostCreate(s)
  \/ PostPopulate(s) \/ PostFindPushToken(s)

PagerSlot == 1

NextHistory ==
  \/ \E s \in Slots, u \in SendUsers, rid \in SendUsers, p \in HistoryPayloads : SocketStart(s, u, rid, p)
  \/ \E s \in Slots, u \in SendUsers, rid \in SendUsers, p \in HistoryPayloads : PostStart(s, u, rid, p)
  \/ \E s \in Slots : SocketSteps(s) \/ PostSteps(s) \/ SendRetire(s)
  \/ Tick
  \/ \E u \in SendUsers, o \in SendUsers, k \in 1 .. MaxLimit : PagerBegin(u, o, k)
  \/ PagerRequest(PagerSlot) \/ PagerReceive(PagerSlot) \/ PagerEnd
  \/ GetPage(PagerSlot) \/ GetFind(PagerSlot) \/ GetUpdate(PagerSlot)

SpecHistory == Init /\ [][NextHistory]_vars

(***************************************************************************)
(* The read specification: the same sends, and read requests of both kinds *)
(* that may overlap and fail                                               *)
(***************************************************************************)
ReadSteps(s) ==
  \/ MarkFind(s) \/ MarkUpdate(s)
  \/ GetPage(s) \/ GetFind(s) \/ GetUpdate(s)
  \/ ReadAwaitRejects(s) \/ ReadRetire(s)

ReadPayloads == {Payload("", "", TRUE, NoKey)}

NextRead ==
  \/ \E s \in Slots, u \in SendUsers, rid \in SendUsers, p \in ReadPayloads : SocketStart(s, u, rid, p)
  \/ \E s \in Slots : SocketSteps(s) \/ SendRetire(s)
  \/ \E s \in RdSlots, u \in SendUsers, o \in SendUsers \cup {NoId} : MarkStart(s, u, o)
  \/ \E s \in RdSlots, u \in SendUsers, o \in SendUsers :
        GetStart(s, u, o, 0, NoCursor, FALSE) /\ UNCHANGED pager
  \/ \E s \in RdSlots : ReadSteps(s)

SpecRead == Init /\ [][NextRead]_vars

(***************************************************************************)
(* The delete specification: voice messages sent through the socket and    *)
(* POST /messages/voice, and delete requests of both kinds                 *)
(***************************************************************************)
VoiceSteps(s) ==
  \/ VoiceFindReceiver(s) \/ VoiceFindSender(s) \/ VoiceUpload(s) \/ VoiceCreate(s)
  \/ VoicePopulate(s) \/ VoiceFindPushToken(s)

DeleteSteps(s) ==
  \/ DeleteFind(s) \/ DeleteDestroy(s) \/ DeleteRemove(s)
  \/ DeleteAwaitRejects(s) \/ DeleteRetire(s)

NextDelete ==
  \/ \E s \in Slots, u \in SendUsers, rid \in SendUsers, p \in ReadPayloads : SocketStart(s, u, rid, p)
  \/ \E s \in Slots, u \in SendUsers, rid \in SendUsers : VoiceStart(s, u, rid, TRUE)
  \/ \E s \in Slots : SocketSteps(s) \/ VoiceSteps(s) \/ SendRetire(s)
  \/ \E s \in DelSlots, u \in SendUsers, id \in MessageIds \cup {NoMessageId, BadMessageId} :
        SocketDeleteStart(s, u, id)
  \/ \E s \in DelSlots, u \in SendUsers, id \in MessageIds \cup {BadMessageId} : HttpDeleteStart(s, u, id)
  \/ \E s \in DelSlots : DeleteSteps(s)

SpecDelete == Init /\ [][NextDelete]_vars

(***************************************************************************)
(* The presence specification: connections of u1 and u2 that open, run and *)
(* close while time passes                                                 *)
(***************************************************************************)
NextPresence ==
  \/ \E c \in ConnIds, u \in SendUsers : Connect(c, u)
  \/ \E c \in ConnIds : ConnStamp(c) \/ ConnStampRejects(c) \/ Heartbeat(c) \/ HeartbeatLands(c)
  \/ \E c \in ConnIds : Disconnect(c) \/ DisconnectStamp(c)
  \/ Tick

SpecPresence == Init /\ [][NextPresence]_vars

(***************************************************************************)
(* The store specification: calls of the presence store's functions with   *)
(* ids in either representation                                            *)
(***************************************************************************)
MaxIds == 2

IdLists == UNION {[1 .. n -> RawIds] : n \in 0 .. MaxIds}

NextStore ==
  \/ \E x \in RawIds : CallAdd(x)
  \/ \E x \in RawIds : CallRemove(x)
  \/ \E ids \in IdLists : CallGetStatus(ids)

SpecStore == Init /\ [][NextStore]_vars

(***************************************************************************)
(* The push specification: calls of sendExpoPush with one value or a list  *)
(***************************************************************************)
NextPush ==
  \/ \E to \in PushTargets : SendExpoPush(to)
  \/ PushSettle
  \/ PushReturn

SpecPush == Init /\ [][NextPush]_vars

(***************************************************************************)
(* send_message and its acknowledgement: every await of the handler        *)
(* settles, by resolving or by rejecting                                   *)
(***************************************************************************)
NextAck ==
  \/ \E s \in Slots, u \in SendUsers, rid \in ReceiverIds, p \in MessagePayloads : SocketStart(s, u, rid, p)
  \/ \E s \in Slots : SocketSteps(s) \/ SendAwaitRejects(s) \/ SendRetire(s)
  \/ \E u \in SendUsers, v \in SendUsers : Block(u, v)
  \/ \E u \in SendUsers, v \in SendUsers : Unblock(u, v)

SpecAck ==
  /\ Init /\ [][NextAck]_vars
  /\ \A s \in Slots : WF_vars(SocketSteps(s) \/ SendAwaitRejects(s))

(***************************************************************************)
(* Requests to a protected route                                           *)
(***************************************************************************)
Jwts ==
  {NoJwt, GoodJwt("u1"), GoodJwt("u2"), GoodJwt(Ghost), Jwt("other", FALSE, "u1"),
   Jwt(JWT_SECRET, TRUE, "u1"), Jwt("other", TRUE, "u1"), Jwt(JWT_SECRET, FALSE, NoId)}

Headers == {NoHeader} \cup {Header("Bearer", j) : j \in Jwts} \cup {Header("Basic", GoodJwt("u1"))}

Requests == {Request(c, h, k) : c \in Jwts, h \in Headers, k \in BOOLEAN}

NextProtect ==
  \/ \E req \in Requests : ProtectRoutes(req)
  \/ ProtectFindUser \/ ProtectAwaitRejects \/ ProtectRetire

SpecProtect == Init /\ [][NextProtect]_vars

(***************************************************************************)
(* Voice files: uploads, the three ways to delete their messages          *)
(***************************************************************************)
NextCleanup ==
  \/ \E s \in Slots, u \in SendUsers, rid \in SendUsers : VoiceStart(s, u, rid, TRUE)
  \/ \E s \in Slots : VoiceSteps(s) \/ SendRetire(s)
  \/ \E s \in DelSlots, u \in SendUsers, id \in MessageIds : SocketDeleteStart(s, u, id)
  \/ \E s \in DelSlots, u \in SendUsers, id \in MessageIds : HttpDeleteStart(s, u, id)
  \/ \E s \in DelSlots : DeleteSteps(s)
  \/ \E u \in SendUsers, o \in SendUsers : ClearStart(u, o)
  \/ ClearFind \/ ClearCleanup \/ ClearDeleteMany \/ ClearAwaitRejects \/ ClearRetire

SpecCleanup == Init /\ [][NextCleanup]_vars

(***************************************************************************)
(* The gateway: handshakes, accepted and refused, and the events of the   *)
(* listening connections                                                   *)
(***************************************************************************)
Handshakes ==
  {Credentials(GoodJwt(u), NoJwt, TRUE) : u \in SendUsers}
    \cup {Credentials(NoJwt, GoodJwt("u1"), TRUE),
          Credentials(NoJwt, NoJwt, TRUE),
          Credentials(Jwt("other", FALSE, "u1"), NoJwt, TRUE),
          Credentials(Jwt(JWT_SECRET, TRUE, "u1"), NoJwt, TRUE),
          Credentials(Jwt(JWT_SECRET, FALSE, NoId), NoJwt, TRUE),
          Credentials(GoodJwt("u1"), NoJwt, FALSE)}

NextGateway ==
  \/ \E c \in ConnIds, cred \in Handshakes : Handshake(c, cred)
  \/ \E c \in ConnIds : Refused(c) \/ ConnStamp(c) \/ Disconnect(c) \/ DisconnectStamp(c)
  \/ \E c \in ConnIds, s \in Slots, o \in SendUsers : OnMarkMessagesRead(c, s, o)
  \/ \E s \in Slots : MarkFind(s) \/ ReadRetire(s)
  \/ (clock < 1 /\ Tick)

SpecGateway == Init /\ [][NextGateway]_vars

(***************************************************************************)
(* The rooms: connections of every user and the three socket events that  *)
(* emit to rooms                                                           *)
(***************************************************************************)
\* no handler is in flight: the events of this specification arrive one at a
\* time, while connections come and go at any moment
Quiet ==
  /\ \A s \in Slots : send[s].pc = "idle"
  /\ \A s \in RdSlots : rd[s].pc = "idle"
  /\ \A s \in DelSlots : del[s].pc = "idle"

NextRooms ==
  \/ \E c \in ConnIds, u \in Users : Connect(c, u)
  \/ \E c \in ConnIds : ConnStamp(c) \/ Disconnect(c)
  \/ \E c \in ConnIds, s \in Slots, rid \in {"u2", UpperCaseId}, p \in ReadPayloads :
        Quiet /\ conns[c].user = "u1" /\ OnSendMessage(c, s, rid, p)
  \/ \E s \in Slots : SocketSteps(s) \/ SendRetire(s)
  \/ \E c \in ConnIds, s \in Slots, o \in SendUsers : Quiet /\ OnMarkMessagesRead(c, s, o)
  \/ \E s \in Slots : MarkFind(s) \/ MarkUpdate(s) \/ ReadRetire(s)
  \/ \E c \in ConnIds, s \in DelSlots, id \in MessageIds : Quiet /\ OnDeleteMessage(c, s, id)
  \/ \E s \in DelSlots : DeleteFind(s) \/ DeleteRemove(s) \/ DeleteRetire(s)

SpecRooms == Init /\ [][NextRooms]_vars

(***************************************************************************)
(* The conversation list: messages posted between the three users,         *)
(* read by their receivers, and listed for u1 while time passes            *)
(***************************************************************************)
\* a voice descriptor, and two encrypted payloads that differ in ciphertext and nonce
ListPayloads ==
  {Payload("", "", TRUE, NoKey), Payload("c1", "n1", FALSE, "K2"), Payload("c2", "n2", FALSE, "K2")}

NextList ==
  \/ \E s \in Slots, u \in SendUsers, rid \in Users, p \in ListPayloads : PostStart(s, u, rid, p)
  \/ \E s \in Slots, p \in ListPayloads : SocketStart(s, "u2", "u1", p)
  \/ \E s \in Slots : PostFindReceiver(s) \/ PostFindSender(s) \/ PostCreate(s)
  \/ \E s \in Slots : PostPopulate(s) \/ PostFindPushToken(s)
  \/ \E s \in Slots : SocketSteps(s) \/ SendRetire(s)
  \/ \E s \in RdSlots, o \in SendUsers : s = PagerSlot /\ MarkStart(s, "u1", o)
  \/ \E s \in RdSlots : MarkFind(s) \/ MarkUpdate(s) \/ ReadRetire(s)
  \/ (clock < 1 /\ Tick)
  \/ ListStart("u1") \/ ListAggregate \/ ListAwaitRejects \/ ListRetire

SpecList == Init /\ [][NextList]_vars

(***************************************************************************)
(* The page size: requests with every kind of limit against conversations  *)
(* of up to MaxConversation messages                                       *)
(***************************************************************************)
MaxConversation == 102

Limits ==
  {NoLimit, JunkLimit}
    \cup {IntLimit(v) : v \in {0 - 1000, 0 - 102, 0 - 101, 0 - 100, 0 - 3, 0 - 1, 0, 1, 2, 50, 99, 100, 101, 1000}}

NextPage ==
  \/ \E size \in 0 .. MaxConversation, raw \in Limits : FetchPage(size, raw)
  \/ FetchRetire

SpecPage == Init /\ [][NextPage]_vars

(***************************************************************************)
(* The typing indicators: connections of every user and their typing       *)
(* events                                                                  *)
(***************************************************************************)
TypingTargets == Users \cup {NoId, Ghost}

NextTyping ==
  \/ \E c \in ConnIds, u \in Users : Connect(c, u)
  \/ \E c \in ConnIds : ConnStamp(c) \/ Disconnect(c)
  \/ \E c \in ConnIds, rid \in TypingTargets : OnTypingStart(c, rid)
  \/ \E c \in ConnIds, rid \in TypingTargets : OnTypingStop(c, rid)
  \/ TypingRetire

SpecTyping == Init /\ [][NextTyping]_vars

(***************************************************************************)
(* The key uploads of u1, who has E2EE enabled, and of u2, who has not,    *)
(* beside the other writes to user documents                               *)
(***************************************************************************)
BodyKeys ==
  { NoBodyKey, NumberKey(0), NumberKey(7), StringKey("", FALSE), StringKey("", TRUE),
    StringKey(ShortKey, FALSE), StringKey(ShortKey, TRUE),
    StringKey("K2", FALSE), StringKey("K3", FALSE), StringKey("K3", TRUE) }

NextKeys ==
  \/ \E u \in SendUsers, k \in BodyKeys : UploadStart(u, k)
  \/ UploadUpdate \/ UploadAwaitRejects \/ UploadRetire
  \/ \E u \in SendUsers, v \in SendUsers : Block(u, v)
  \/ \E u \in SendUsers, v \in SendUsers : Unblock(u, v)

SpecKeys == Init /\ [][NextKeys]_vars

(***************************************************************************)
(* The friend routes: two requests of u1 and u2 in flight at a time        *)
(***************************************************************************)
FriendKinds == {"request", "accept", "reject", "cancel", "unfriend"}
FriendTargets == SendUsers \cup {NoId, Ghost}

FriendSteps(s) ==
  \/ RequestFindUser(s) \/ RequestFind(s) \/ RequestCreate(s)
  \/ AnswerFind(s) \/ FriendSave(s)
  \/ RemoveFind(s) \/ FriendDelete(s)
  \/ FriendAwaitRejects(s) \/ FriendRetire(s)

NextFriends ==
  \/ \E s \in FrSlots, kind \in FriendKinds, u \in SendUsers, o \in FriendTargets :
       FriendStart(s, kind, u, o)
  \/ \E s \in FrSlots : FriendSteps(s)

SpecFriends == Init /\ [][NextFriends]_vars

(***************************************************************************)
(* Key uploads beside encrypted sends between u1 and u2                    *)
(***************************************************************************)
ReadyKeys == {StringKey("K2", FALSE), StringKey("K3", TRUE), StringKey(ShortKey, FALSE)}

NextReady ==
  \/ \E u \in SendUsers, k \in ReadyKeys : UploadStart(u, k)
  \/ UploadUpdate \/ UploadAwaitRejects \/ UploadRetire
  \/ \E s \in Slots, u \in SendUsers, rid \in SendUsers, p \in HistoryPayloads : SocketStart(s, u, rid, p)
  \/ \E s \in Slots, u \in SendUsers, rid \in SendUsers, p \in HistoryPayloads : PostStart(s, u, rid, p)
  \/ \E s \in Slots : SocketSteps(s) \/ PostSteps(s) \/ SendRetire(s)

SpecReady == Init /\ [][NextReady]_vars

(***************************************************************************)
(* Clearing a conversation: voice messages of u1 and u2 to any user, and   *)
(* clear requests that name the other user in either spelling of the id    *)
(***************************************************************************)
NextClear ==
  \/ \E s \in Slots, u \in SendUsers, rid \in Users : VoiceStart(s, u, rid, TRUE)
  \/ \E s \in Slots : VoiceSteps(s) \/ SendRetire(s)
  \/ \E u \in SendUsers, o \in SendUsers \cup {UpperCaseId} : ClearStart(u, o)
  \/ ClearFind \/ ClearCleanup \/ ClearDeleteMany \/ ClearAwaitRejects \/ ClearRetire

SpecClear == Init /\ [][NextClear]_vars

(***************************************************************************)
(* Claims on the send pipeline                                             *)
(***************************************************************************)
BlockedError == "You are blocked from this user"
E2eeError == "Recipient has not enabled E2EE"

NothingSent(r) == r.msgId = 0 /\ r.emits = <<>> /\ r.pushes = <<>>

\* C1 as stated: on every send path, a request whose receiver lookup finds the
\* sender in the receiver's block list fails with the blocked-by-recipient error
\* and persists, emits and pushes nothing.
C1_Original ==
  \A s \in Slots :
    send[s].sawBlocked =>
      /\ send[s].pc = "done" /\ send[s].result = "err"
      /\ send[s].error = BlockedError
      /\ NothingSent(send[s])

\* C1 amended: on every send path, a request whose receiver lookup finds the
\* sender in the receiver's block list fails and persists, emits and pushes
\* nothing; the error is the blocked-by-recipient error, except that socket
\* send_message and POST /messages answer an encrypted payload to a receiver
\* without E2EE with the not-E2EE-ready error, the check that comes first.
C1_BlockedSendFails ==
  \A s \in Slots :
    send[s].sawBlocked =>
      /\ send[s].pc = "done" /\ send[s].result = "err"
      /\ NothingSent(send[s])
      /\ IF send[s].path \in {"socket", "post"} /\ IsE2EEMessage(send[s]) /\ ~send[s].sawE2ee
         THEN send[s].error = E2eeError
         ELSE send[s].error = BlockedError

\* a voice upload to a receiver with a push token who blocks the sender was refused
C1_Witness ==
  \E s \in Slots :
    /\ send[s].sawBlocked /\ send[s].error = BlockedError
    /\ send[s].path = "voice" /\ expoPushToken[CastObjectId(send[s].receiverId)] # NoToken

C3_NoSelfMessage == \A m \in messages : m.sender # m.receiver

\* C5: once a message is persisted by send_message or POST /messages, a failure
\* of the push step (the lookup of the receiver's push token) does not turn the
\* acknowledgement or the response into an error.
C5_PushFailureNotReported ==
  \A s \in Slots :
    (send[s].path \in {"socket", "post"} /\ send[s].msgId # 0 /\ send[s].failedAt = "findPushToken")
      => send[s].result # "err"

\* the events a successful send has emitted: both rooms on the socket path,
\* the receiver's room on the HTTP paths
RoomsOf(r) == [i \in DOMAIN r.emits |-> r.emits[i].room]

TargetedRooms(r) ==
  IF r.path = "socket" THEN <<Room(r.receiverId), Room(r.user)>> ELSE <<Room(r.receiverId)>>

Occurrences(q, id) == Cardinality({i \in DOMAIN q : q[i].id = id})

\* a successful send has persisted one message and emitted one new_message
\* event for it to each targeted room, after it was persisted
SentOnce(r) ==
  /\ r.msgId # 0
  /\ Cardinality(Stored(r.msgId)) = 1
  /\ \A m \in Stored(r.msgId) : m.sender = r.user /\ m.receiver = r.receiverId
  /\ RoomsOf(r) = TargetedRooms(r)
  /\ \A i \in DOMAIN r.emits : r.emits[i].event = "new_message" /\ r.emits[i].messageId = r.msgId
  /\ r.inStoreAtEmit

Succeeded(r) == r.pc = "done" /\ r.result = "ok" /\ r.user # r.receiverId

PagedThrough == pager.active /\ pager.finished /\ pager.base = nextId

PagedConversation == Conversation(pager.user, pager.other, NoCursor)

StampAt(id) == (CHOOSE m \in messages : m.id = id).createdAt

\* every message of the conversation was returned exactly once, oldest first,
\* in pages of k messages up to the last, shorter, one
PagesComplete ==
  /\ {pager.acc[i] : i \in DOMAIN pager.acc} = {m.id : m \in PagedConversation}
  /\ \A i, j \in DOMAIN pager.acc : i < j =>
       pager.acc[i] # pager.acc[j] /\ StampAt(pager.acc[i]) <= StampAt(pager.acc[j])
  /\ \A i \in DOMAIN pager.sizes :
       IF i < Len(pager.sizes) THEN pager.sizes[i] = pager.k ELSE pager.sizes[i] < pager.k

DistinctStamps(M) == \A m, n \in M : m # n => m.createdAt # n.createdAt

\* C8 as stated: whatever the creation timestamps of the conversation, paging
\* with limit k from the newest page back, each request passing the oldest
\* returned createdAt as before, returns every message exactly once, in pages
\* of the k next older messages, until hasMore is false
C8_Original == PagedThrough => PagesComplete

\* C8 as amended: the same for a conversation whose messages carry pairwise
\* distinct createdAt stamps (and a limit of 1 to 100, the page ceiling)
C8_PagingDistinctStamps ==
  PagedThrough /\ DistinctStamps(PagedConversation) /\ pager.k <= MaxPageSize => PagesComplete

\* a conversation of two messages was paged through with limit 1 in three requests
C8_Witness ==
  /\ PagedThrough /\ DistinctStamps(PagedConversation)
  /\ pager.k = 1 /\ Len(pager.acc) = 2 /\ Len(pager.sizes) = 3


(***************************************************************************)
(* Claims on read receipts                                                 *)
(***************************************************************************)
\* C7: a read of U for counterpart V (mark_messages_read, or the read side
\* effect of GET /messages/V) whose query runs after an earlier read of U for V
\* has completed, with no message persisted since that earlier read's query,
\* finds nothing to mark: it updates no message, so the read flags stay as the
\* first read left them, and it emits no messages_read event.
C7_SecondReadAffectsNothing ==
  /\ \A u, v \in Users : lastDone[u][v] = nextId => Unread(u, v) = {}
  /\ \A s \in RdSlots :
       rd[s].afterQuiet =>
         /\ rd[s].pc = "done"
         /\ rd[s].toMark = {} /\ rd[s].flipped = {} /\ rd[s].emits = <<>>

\* a second read followed a first one that had marked a message of the counterpart
C7_Witness ==
  \E s \in RdSlots :
    /\ rd[s].afterQuiet /\ rd[s].pc = "done" /\ ~rd[s].failed
    /\ \E m \in messages : m.sender = rd[s].otherUserId /\ m.receiver = rd[s].user /\ m.read


(***************************************************************************)
(* Claims on deletion                                                      *)
(***************************************************************************)
\* a delete request that was answered after its lookup of the message ran
Looked(r) == r.pc = "done" /\ r.messageId \in MessageIds /\ r.error # "Failed to delete message"

NothingDeleted(r) == r.removed = {} /\ r.emits = <<>> /\ r.destroyed = 0

\* C6 as stated: a delete request (delete_message or DELETE /messages/:messageId)
\* for an identifier under which the caller has sent no message fails with the
\* authorization error, whether a message with that identifier exists or not,
\* deletes nothing and emits no message_deleted event.
C6_Original ==
  \A s \in DelSlots :
    Looked(del[s]) /\ ~del[s].own =>
      /\ del[s].result = "err" /\ del[s].error = NotOwnerError
      /\ NothingDeleted(del[s])

\* C6 as amended: such a request fails, deletes nothing and emits no
\* message_deleted event; the error is the authorization error when a message
\* with the identifier exists and was sent by someone else, and the not-found
\* error when no message has the identifier.
C6_ForeignDeleteRefused ==
  \A s \in DelSlots :
    Looked(del[s]) /\ ~del[s].own =>
      /\ del[s].result = "err"
      /\ del[s].error = IF del[s].found THEN NotOwnerError ELSE NotFoundError
      /\ del[s].status = IF del[s].kind = "socket" THEN 0 ELSE IF del[s].found THEN 403 ELSE 404
      /\ NothingDeleted(del[s])

\* the receiver of a stored voice message with a storage reference was refused
\* its deletion over HTTP
C6_Witness ==
  \E s \in DelSlots :
    /\ Looked(del[s]) /\ del[s].found /\ ~del[s].own /\ del[s].kind = "http"
    /\ \E m \in Stored(del[s].messageId) : m.receiver = del[s].user /\ m.cloudinaryPublicId # 0


(***************************************************************************)
(* Claims on presence                                                      *)
(***************************************************************************)
\* C9: while a user has an open connection (joined, the transport not yet
\* disconnected), the presence store reports the user online; the disconnect
\* of another connection of the same user does not clear the presence.
C9_OnlineWhileConnected == \A c \in ConnIds : Open(c) => has(Str(conns[c].user))

\* the entries other than that of x are as before the call
OthersKept(x) == \A y \in RawIds : String(y) # String(x) => (has(y) <=> String(y) \in lastOp.before)

\* C10: after add(u), has(u) holds and after remove(u) it does not, in either
\* representation of u; a repeated add or remove changes nothing; both leave
\* the entries of the other users alone; and getStatus(ids) holds, for each
\* listed id and no other, the value of has(id).
C10_StoreContract ==
  /\ lastOp.op = "add" =>
       /\ has(lastOp.arg) /\ \A y \in RawIds : String(y) = String(lastOp.arg) => has(y)
       /\ OthersKept(lastOp.arg)
       /\ String(lastOp.arg) \in lastOp.before => onlineUsers = lastOp.before
       /\ Cardinality(onlineUsers) <= Cardinality(lastOp.before) + 1
  /\ lastOp.op = "remove" =>
       /\ ~has(lastOp.arg) /\ \A y \in RawIds : String(y) = String(lastOp.arg) => ~has(y)
       /\ OthersKept(lastOp.arg)
       /\ String(lastOp.arg) \notin lastOp.before => onlineUsers = lastOp.before
  /\ lastOp.op = "getStatus" =>
       /\ onlineUsers = lastOp.before
       /\ DOMAIN lastOp.out = {String(lastOp.ids[i]) : i \in DOMAIN lastOp.ids}
       /\ \A i \in DOMAIN lastOp.ids : lastOp.out[String(lastOp.ids[i])] = has(lastOp.ids[i])

\* getStatus answered for an online user given as an ObjectId and an offline one
C10_Witness ==
  /\ lastOp.op = "getStatus" /\ Len(lastOp.ids) = 2
  /\ lastOp.ids[1].type = "objectId" /\ has(lastOp.ids[1]) /\ ~has(lastOp.ids[2])
  /\ lastOp.out[String(lastOp.ids[1])] /\ ~lastOp.out[String(lastOp.ids[2])]


(***************************************************************************)
(* Claims on the push dispatcher                                           *)
(***************************************************************************)
\* a string that begins with the seventeen characters of the prefix
WellFormedToken(v) ==
  /\ v.type = "string" /\ Len(v.chars) >= 17
  /\ \A i \in 1 .. 17 : v.chars[i] = Prefix[i]

CountIn(q, v) == Cardinality({i \in DOMAIN q : q[i] = v})

\* C11: a call of sendExpoPush never throws, and it issues one request per
\* occurrence of a token that is a string starting with the push-token prefix
\* and none for any other value: none at all when every token is malformed,
\* and one for each valid token of a list that mixes valid and malformed ones.
C11_PushOnlyValidTokens ==
  pushCall.pc # "idle" =>
    /\ ~pushCall.threw
    /\ \A v \in TokenValues :
         CountIn(pushCall.requests, v) = IF WellFormedToken(v) THEN CountIn(pushCall.to.items, v) ELSE 0
    /\ pushCall.pc = "done" => Len(pushCall.results) = Len(pushCall.requests)

\* a list of a malformed and a valid token was sent, and the valid token's
\* request failed
C11_Witness ==
  /\ pushCall.pc = "done" /\ pushCall.to.isArray /\ Len(pushCall.to.items) = 2
  /\ ~WellFormedToken(pushCall.to.items[1]) /\ pushCall.to.items[1].type = "string"
  /\ Len(pushCall.requests) = 1 /\ pushCall.requests[1] = pushCall.to.items[2]
  /\ ~pushCall.results[1]


(***************************************************************************)
(* C12: a handshake with a missing, forged, expired or id-less token, or   *)
(* one presented while the secret is not configured, is refused before the *)
(* join: the connection is in no room, adds no presence entry, stamps no   *)
(* last-seen, and none of its events is processed                          *)
(***************************************************************************)
Presented(cred) == IF cred.auth.present THEN cred.auth ELSE cred.query

Refusable(cred) ==
  \/ ~Presented(cred).present
  \/ Presented(cred).signedBy # JWT_SECRET
  \/ Presented(cred).expired
  \/ Presented(cred).id = NoId
  \/ ~cred.configured

Attempted(c) == conns[c].pc # "closed"

NoEventProcessed(c) ==
  /\ \A s \in Slots, rid \in SendUsers, p \in ReadPayloads : ~ENABLED OnSendMessage(c, s, rid, p)
  /\ \A s \in Slots, o \in SendUsers : ~ENABLED OnMarkMessagesRead(c, s, o)
  /\ \A s \in DelSlots, id \in MessageIds : ~ENABLED OnDeleteMessage(c, s, id)

RefusedUnjoined ==
  \A c \in ConnIds :
    Attempted(c) /\ Refusable(conns[c].cred) =>
      /\ conns[c].pc = "rejected" /\ conns[c].error # ""
      /\ ~conns[c].joined /\ ~conns[c].interval
      /\ \A u \in Users : \A x \in Members(Room(u)) : x.conn # c
      /\ NoEventProcessed(c)

RefusalTouchesNothing ==
  \A c \in ConnIds :
    /\ (~Attempted(c) /\ Attempted(c)' /\ Refusable(conns'[c].cred)) =>
          UNCHANGED <<onlineUsers, lastSeen, messages, send, rd, del>>
    /\ (Attempted(c) /\ Refusable(conns[c].cred)) => conns'[c] \in {conns[c], ClosedConn}

C12_RefusedHandshake == []RefusedUnjoined /\ [][RefusalTouchesNothing]_vars

C12_Witness ==
  \E c, d \in ConnIds :
    /\ conns[c].pc = "rejected" /\ conns[c].error = "Server misconfigured"
    /\ Listening(d) /\ rd[1].pc = "done" /\ rd[1].user = conns[d].user

(***************************************************************************)
(* C13: a joined connection is in the room of the user its token           *)
(* authenticated and in no other; an event about a message between S and R *)
(* reaches only connections of S or R, and reaches every open connection   *)
(* of the user it is addressed to                                          *)
(***************************************************************************)
InOwnRoomOnly ==
  \A c \in ConnIds :
    conns[c].joined =>
      \A u \in Users :
        (\E x \in Members(Room(u)) : x.conn = c) <=> u = HandshakeToken(conns[c].cred).id

C13_RoomDelivery ==
  /\ InOwnRoomOnly
  /\ \A s \in Slots : \A i \in DOMAIN send[s].emits :
        LET e == send[s].emits[i]
            addressee == IF i = 1 THEN CastObjectId(send[s].receiverId) ELSE send[s].user
        IN /\ \A x \in e.to : x.user \in {send[s].user, CastObjectId(send[s].receiverId)}
           /\ \A x \in e.open : x.user = addressee => x \in e.to
  /\ \A s \in RdSlots : \A i \in DOMAIN rd[s].emits :
        LET e == rd[s].emits[i]
        IN /\ \A x \in e.to : x.user \in {rd[s].user, rd[s].otherUserId}
           /\ \A x \in e.open : x.user = rd[s].otherUserId => x \in e.to
  /\ \A s \in DelSlots : \A i \in DOMAIN del[s].emits :
        LET e == del[s].emits[i]
            addressee == IF i = 1 THEN del[s].receiver ELSE del[s].user
        IN /\ \A x \in e.to : x.user \in {del[s].user, del[s].receiver}
           /\ \A x \in e.open : x.user = addressee => x \in e.to

(***************************************************************************)
(* C14: every persisted encrypted message carries a non-empty              *)
(* senderPublicKey, the public key of its sender at send time, and the     *)
(* new_message event of that message carries that same value.  No key is   *)
(* uploaded in this specification: the key at send time is the             *)
(* directory's key                                                         *)
(***************************************************************************)
C14_SenderKeySnapshot ==
  /\ \A m \in messages :
        m.isEncrypted => m.senderPublicKey # NoKey /\ m.senderPublicKey = publicKey[m.sender]
  /\ \A s \in Slots : \A i \in DOMAIN send[s].emits : \A m \in Stored(send[s].emits[i].messageId) :
        m.isEncrypted => send[s].emits[i].senderPublicKey = m.senderPublicKey

(***************************************************************************)
(* C15: when a message with a stored voice file is deleted, by             *)
(* delete_message, by DELETE /messages/:messageId or by the conversation   *)
(* clear, a cleanup request for that file has been issued; the clear       *)
(* issues a single bulk call that covers every file of the messages it     *)
(* deleted                                                                 *)
(***************************************************************************)
Requested(cleanup) == UNION {cleanup[i] : i \in DOMAIN cleanup}

C15_CleanupRequested ==
  /\ \A s \in DelSlots : del[s].removedFiles \subseteq Requested(del[s].cleanup)
  /\ clear.removedFiles \subseteq Requested(clear.cleanup)
  /\ Len(clear.cleanup) <= 1

(***************************************************************************)
(* C16: when the cleanup of voice files fails, for some or all files, the  *)
(* conversation clear still deletes every message of the conversation and  *)
(* answers 200, and DELETE /messages/:messageId still deletes the message  *)
(* and answers 200; no response reports the cleanup failure.  A rejected   *)
(* database call is a failure of its own and answers 500                   *)
(***************************************************************************)
C16_CleanupFailureIgnored ==
  /\ (clear.pc = "done" /\ clear.failedFiles # {}) =>
        IF clear.dbRejected
        THEN clear.status = 500 /\ clear.message = "Failed to clear conversation"
        ELSE /\ clear.status = 200 /\ clear.message = "Conversation cleared successfully"
             /\ clear.publicIds \subseteq clear.removedFiles \cup (clear.publicIds \ Files(messages))
  /\ \A s \in DelSlots :
        (del[s].pc = "done" /\ del[s].cleanupFailed) =>
          IF del[s].dbRejected
          THEN del[s].status = 500 /\ del[s].error = "Failed to delete message"
          ELSE /\ del[s].status = 200 /\ del[s].result = "ok" /\ del[s].error = ""
               /\ Stored(del[s].messageId) = {}

C16_Witness ==
  /\ clear.pc = "done" /\ clear.failedFiles # {} /\ clear.status = 200 /\ clear.removed # {}
  /\ \E s \in DelSlots : del[s].pc = "done" /\ del[s].cleanupFailed /\ del[s].status = 200

(***************************************************************************)
(* C17: once the transport of a connection has closed and its connection   *)
(* callback has run to its end, the heartbeat timer of the connection is   *)
(* cancelled and, no other connection of the user being open, the user's   *)
(* presence entry is removed: also when the close came while the callback  *)
(* was suspended on the initial last-seen write                            *)
(***************************************************************************)
Ended(c) == ~conns[c].joined /\ conns[c].pc \in {"orphan", "closing", "closed"}

C17_DisconnectCleansUp ==
  \A c \in ConnIds :
    (Ended(c) /\ conns[c].pc # "closed") =>
      /\ ~conns[c].interval
      /\ (\A d \in ConnIds : Open(d) => conns[d].user # conns[c].user) => ~has(Str(conns[c].user))

(***************************************************************************)
(* C18: a send_message event with a callback is acknowledged exactly once, *)
(* eventually, on every path: with an error alone or with the persisted    *)
(* message alone                                                           *)
(***************************************************************************)
Handling(s) == send[s].path = "socket" /\ send[s].pc \notin {"idle", "done"}

AckedOnce(s) ==
  /\ send[s].pc = "done" /\ Len(send[s].acks) = 1
  /\ (send[s].acks[1].error # "") # (send[s].acks[1].message # 0)

C18_ExactlyOneAck ==
  /\ [](\A s \in Slots : IF send[s].pc = "done" THEN AckedOnce(s) ELSE send[s].acks = <<>>)
  /\ \A s \in Slots : Handling(s) ~> AckedOnce(s)

C18_Witness ==
  \E s \in Slots :
    /\ send[s].path = "socket" /\ AckedOnce(s)
    /\ send[s].acks[1].error = "Failed to send message" /\ send[s].msgId # 0

(***************************************************************************)
(* C19: the protected handler runs only for a token, from the cookie or    *)
(* the Bearer header, that verifies against the secret and names an        *)
(* existing user, with req.user that user; a request whose token is        *)
(* missing, invalid, expired, without id or of an unknown user, or that    *)
(* comes while the secret is not configured, is answered 401 with the      *)
(* handler not run and req.user unset                                      *)
(***************************************************************************)
Carried(req) ==
  IF req.cookie.present THEN req.cookie
  ELSE IF req.header.present /\ req.header.scheme = "Bearer" THEN req.header.token
  ELSE NoJwt

Verifies(req) ==
  /\ Carried(req).present /\ Carried(req).signedBy = JWT_SECRET /\ ~Carried(req).expired
  /\ Carried(req).id \in Users
  /\ req.configured

C19_ProtectRoutes ==
  /\ http.handler => Verifies(http.req) /\ http.user = Carried(http.req).id
  /\ (http.pc = "done" /\ ~Verifies(http.req)) =>
        http.status = 401 /\ ~http.handler /\ http.user = NoId

(***************************************************************************)
(* C20: on every send path, a request whose sender lookup finds the        *)
(* receiver in the sender's own block list fails with the error "You have  *)
(* blocked this user", which is not the blocked-by-recipient error, and    *)
(* persists and emits nothing                                              *)
(***************************************************************************)
OwnBlockError == "You have blocked this user"

C20_OwnBlockRefused ==
  \A s \in Slots :
    send[s].sawOwnBlock =>
      /\ send[s].pc = "done" /\ send[s].result = "err"
      /\ send[s].error = OwnBlockError /\ OwnBlockError # BlockedError
      /\ send[s].msgId = 0 /\ send[s].emits = <<>>

(***************************************************************************)
(* C21: every persisted message has exactly one payload variant populated  *)
(* (text, voice, encrypted or encrypted-voice) and isEncrypted is true     *)
(* exactly when that variant is an encrypted one; a request with both      *)
(* ciphertext+nonce and a voice descriptor persists one variant only       *)
(***************************************************************************)
\* the payload variants a stored document holds: the schema has paths for
\* text, voiceMessage and encryptedMessage, and none for encryptedVoiceMessage
PopulatedVariants(m) ==
  (IF m.text # "" THEN {"text"} ELSE {})
    \cup (IF m.voiceMessage THEN {"voice"} ELSE {})
    \cup (IF m.encryptedMessage # "" THEN {"encrypted"} ELSE {})

C21_OnePayloadVariant ==
  \A m \in messages :
    /\ Cardinality(PopulatedVariants(m)) = 1
    /\ m.isEncrypted <=> PopulatedVariants(m) \subseteq {"encrypted", "encrypted-voice"}

(***************************************************************************)
(* C22: the conversation list of U has exactly one entry per counterpart   *)
(* U has a message with; its lastMessage is a message of the pair that no  *)
(* other is newer than; its unreadCount is the number of unread messages   *)
(* the counterpart sent to U, no message sent by U counting; the entries   *)
(* come newest lastMessage first                                           *)
(***************************************************************************)
Listed == listing.pc = "done" /\ listing.status = 200

\* the users U shares a message with
Counterparts(u) ==
  {m.receiver : m \in {x \in listing.read : x.sender = u}}
    \cup {m.sender : m \in {x \in listing.read : x.receiver = u}}

Between(u, c) ==
  {m \in listing.read : (m.sender = u /\ m.receiver = c) \/ (m.sender = c /\ m.receiver = u)}

C22_ConversationList ==
  Listed =>
    LET u == listing.user
        q == listing.conversations
    IN /\ {q[i].id : i \in DOMAIN q} = Counterparts(u)
       /\ \A i, j \in DOMAIN q : i < j => q[i].id # q[j].id /\ q[i].createdAt >= q[j].createdAt
       /\ \A i \in DOMAIN q :
            /\ \E m \in Between(u, q[i].id) :
                 /\ m.id = q[i].lastMessage
                 /\ \A n \in Between(u, q[i].id) : n.createdAt <= m.createdAt
            /\ q[i].unreadCount =
                 Cardinality({m \in listing.read : m.sender = q[i].id /\ m.receiver = u /\ ~m.read})
            /\ q[i].unreadCount <=
                 Cardinality({m \in Between(u, q[i].id) : m.sender # u /\ ~m.read})

(***************************************************************************)
(* C23: the push body of an encrypted send, and the label of an encrypted  *)
(* last message in the conversation list, are one fixed string whatever    *)
(* the ciphertext and the nonce, and hold neither of them                  *)
(***************************************************************************)
EncryptedLabel == "Encrypted message"

C23_FixedEncryptedLabel ==
  /\ \A s \in Slots : \A i \in DOMAIN send[s].pushes :
        (send[s].path \in {"socket", "post"} /\ IsE2EEMessage(send[s])) =>
          /\ send[s].pushes[i].body = EncryptedLabel
          /\ send[s].pushes[i].body \notin {send[s].cipherText, send[s].nonce}
  /\ Listed =>
        \A i \in DOMAIN listing.conversations :
          LET e == listing.conversations[i] IN
          e.encryptedMessage # "" =>
            e.text = EncryptedLabel /\ e.text \notin {e.encryptedMessage, e.nonce}

\* a push went out for the ciphertext c2 while the list of the receiver shows
\* a last message of ciphertext c1
C23_Witness ==
  /\ \E s \in Slots : send[s].pushes # <<>> /\ send[s].cipherText = "c2"
  /\ Listed
  /\ \E i \in DOMAIN listing.conversations : listing.conversations[i].encryptedMessage = "c1"

(***************************************************************************)
(* C24: GET /messages/:otherUserId returns at most 100 messages whatever   *)
(* the limit of the query string (zero, negative, no number, absent), and  *)
(* at most the limit asked for when that is an integer from 1 to 100       *)
(***************************************************************************)
C24_PageCeiling ==
  fetch.pc = "done" =>
    /\ fetch.returned <= 100
    /\ (fetch.raw.type = "int" /\ fetch.raw.v \in 1 .. 100) => fetch.returned <= fetch.raw.v


(***************************************************************************)
(* C25: a send_message request that fails validation reports the error of  *)
(* the earliest failing check in the order: receiver present and not the   *)
(* sender, payload present and well-formed, receiver exists, receiver      *)
(* E2EE-ready for an encrypted payload, receiver has not blocked sender,   *)
(* sender has not blocked receiver; a self-addressed request without a     *)
(* valid payload is reported as self-messaging                             *)
(***************************************************************************)
EarliestFailing(r) ==
  IF r.receiverId = NoId THEN "receiverId is required"
  ELSE IF r.receiverId = r.user THEN "Cannot message yourself"
  ELSE IF ~IsE2EEMessage(r) /\ ~r.voiceMessage THEN "payload required"
  ELSE IF CastObjectId(r.receiverId) \notin Users THEN "User not found"
  ELSE IF IsE2EEMessage(r) /\ ~r.sawE2ee THEN E2eeError
  ELSE IF r.sawBlocked THEN BlockedError
  ELSE IF r.sawOwnBlock THEN OwnBlockError
  ELSE ""

C25_EarliestCheckWins ==
  \A s \in Slots :
    (send[s].path = "socket" /\ send[s].pc = "done" /\ send[s].failedAt = ""
       /\ EarliestFailing(send[s]) # "")
      => send[s].result = "err" /\ send[s].error = EarliestFailing(send[s])


(***************************************************************************)
(* C26: POST /messages/encrypted-voice rejects an encrypted voice payload  *)
(* addressed to a receiver whose E2EE is not enabled with the error        *)
(* "Recipient has not enabled E2EE" and persists nothing                   *)
(***************************************************************************)
C26_EncryptedVoiceNeedsE2ee ==
  \A s \in Slots :
    (send[s].path = "encvoice" /\ send[s].sawReceiver /\ ~send[s].sawE2ee) =>
      /\ send[s].pc = "done" /\ send[s].result = "err"
      /\ send[s].error = E2eeError
      /\ send[s].msgId = 0


(***************************************************************************)
(* C27: the read flag of a message changes only from false to true, and    *)
(* only in the update of a read action (mark_messages_read or GET          *)
(* /messages/:otherUserId) of the message's receiver naming the message's  *)
(* sender, so a read of U for V leaves the messages U sent and those U     *)
(* received from others as they were; no step changes another field of a   *)
(* persisted message                                                       *)
(***************************************************************************)
\* the read action completing its update in this step
Updating(s) == rd[s].pc = "update" /\ rd'[s].pc = "done" /\ ~rd'[s].failed

ReadFlagStep ==
  \A m \in messages : \A n \in messages' :
    n.id = m.id =>
      /\ [n EXCEPT !.read = m.read] = m
      /\ n.read # m.read =>
           /\ ~m.read /\ n.read
           /\ \E s \in RdSlots :
                Updating(s) /\ rd[s].user = m.receiver /\ rd[s].otherUserId = m.sender

C27_ReadFlagOnlyByReceiver == [][ReadFlagStep]_vars

\* a read of U for V has flipped a message V sent to U while a message U sent
\* to V is still unread
C27_Witness ==
  \E s \in RdSlots :
    /\ rd[s].pc = "done" /\ rd[s].flipped # {}
    /\ \E m \in messages : m.id \in rd[s].flipped /\ m.read
                             /\ m.receiver = rd[s].user /\ m.sender = rd[s].otherUserId
    /\ \E n \in messages : n.sender = rd[s].user /\ n.receiver = rd[s].otherUserId /\ ~n.read


(***************************************************************************)
(* C28: across interleaved read actions of one recipient, each message id  *)
(* is reported in a messages_read event exactly once, by the operation     *)
(* that flipped it from unread to read and to the original sender's room;  *)
(* an operation that flips no message emits no messages_read event         *)
(***************************************************************************)
\* the message ids the events of a finished read action report
Reported(r) == UNION {r.emits[i].messageIds : i \in 1 .. Len(r.emits)}

C28_ReportedOnceByFlipper ==
  \A s \in RdSlots :
    rd[s].pc = "done" =>
      /\ Reported(rd[s]) = rd[s].flipped
      /\ rd[s].flipped = {} => rd[s].emits = <<>>
      /\ \A i \in 1 .. Len(rd[s].emits) : rd[s].emits[i].room = Room(rd[s].otherUserId)
      /\ Len(rd[s].emits) <= 1


(***************************************************************************)
(* C29: typing_start and typing_stop are a pure relay: an event whose      *)
(* receiverId differs from the sender emits exactly one event of the same  *)
(* name, carrying the sender's id, to the receiver's room and to no other  *)
(* room, and leaves the message store, the presence store and the user     *)
(* records unchanged; with a missing receiverId or the sender's own id     *)
(* nothing is emitted                                                      *)
(***************************************************************************)
Relayed ==
  typing.pc = "done" =>
    IF typing.receiverId = NoId \/ typing.receiverId = typing.user
    THEN typing.emits = <<>>
    ELSE /\ Len(typing.emits) = 1
         /\ typing.emits[1].event = typing.event
         /\ typing.emits[1].userId = typing.user
         /\ typing.emits[1].room = Room(typing.receiverId)
         /\ \A x \in typing.emits[1].to : x.user = typing.receiverId

NothingPersisted ==
  (typing.pc = "idle" /\ typing'.pc = "done") =>
    UNCHANGED <<messages, onlineUsers, lastSeen, blockedUsers, e2eeEnabled, publicKey, expoPushToken>>

C29_TypingPureRelay == []Relayed /\ [][NothingPersisted]_vars

\* a typing_stop of u1 reached the connection of u2 and not the connection of
\* u1 that sent it
C29_Witness ==
  /\ typing.pc = "done" /\ typing.event = "typing_stop"
  /\ typing.user = "u1" /\ typing.receiverId = "u2"
  /\ Len(typing.emits) = 1 /\ Cardinality(typing.emits[1].to) = 1
  /\ Cardinality(typing.emits[1].open) = 2


(***************************************************************************)
(* C30: in every reachable state a user whose e2eeEnabled flag is true has *)
(* a non-empty valid public key on file; no step sets the flag except a    *)
(* successful upload of a public key; an upload rejected for a missing,    *)
(* non-string or wrong-length key changes neither the stored key nor the   *)
(* flag                                                                    *)
(***************************************************************************)
ValidOnFile(u) == publicKey[u] # NoKey /\ base64ToBuffer(publicKey[u]) = publicKeyLength

WellFormedKey(k) == k.type = "string" /\ base64ToBuffer(k.text) = publicKeyLength

UploadSettled ==
  keyUpload.pc = "done" =>
    /\ ~WellFormedKey(keyUpload.body) => keyUpload.status = 400
    /\ keyUpload.status = 400 =>
         /\ publicKey[keyUpload.user] = keyUpload.keyBefore
         /\ e2eeEnabled[keyUpload.user] = keyUpload.flagBefore

FlagSetByUploadOnly ==
  \A u \in Users :
    (~e2eeEnabled[u] /\ e2eeEnabled'[u]) =>
      keyUpload.pc = "update" /\ keyUpload.user = u /\ keyUpload'.status = 200

C30_E2eeFlagNeedsKey ==
  /\ []((\A u \in Users : e2eeEnabled[u] => ValidOnFile(u)) /\ UploadSettled)
  /\ [][FlagSetByUploadOnly]_vars

\* u1, with E2EE enabled, has replaced its key by one sent with white space
\* around it
C30_Witness ==
  /\ keyUpload.pc = "done" /\ keyUpload.status = 200 /\ keyUpload.user = "u1"
  /\ keyUpload.body.padded /\ keyUpload.keyBefore = "K1"
  /\ e2eeEnabled["u1"] /\ publicKey["u1"] = "K3"


(***************************************************************************)
(* C31: sendExpoPush never throws or rejects, whatever the token input and *)
(* whatever the outcome of the single requests (network error, non-OK      *)
(* response, error status in the body), and the failure of the request for *)
(* one token prevents no request for another valid token of the call       *)
(***************************************************************************)
AllAttempted ==
  /\ Len(pushCall.sent) = Len(pushCall.requests)
  /\ \A i \in DOMAIN pushCall.requests :
       /\ pushCall.sent[i].to = pushCall.requests[i] /\ pushCall.sent[i].fetched
       /\ pushCall.sent[i].success <=> Success(pushCall.outcomes[i])

C31_PushNeverThrows ==
  /\ ~pushCall.threw
  /\ pushCall.pc = "done" => AllAttempted /\ ~pushCall.caught

\* of two valid tokens the request of the first met a network error and the
\* request of the second succeeded
C31_Witness ==
  /\ pushCall.pc = "done" /\ Len(pushCall.requests) = 2
  /\ pushCall.outcomes[1] = "throws" /\ ~pushCall.results[1]
  /\ pushCall.outcomes[2] = "ok" /\ pushCall.sent[2].fetched /\ pushCall.results[2]


(***************************************************************************)
(* C32: after any sequence and interleaving of friend request, accept,     *)
(* reject, cancel and unfriend, at most one friend record exists for any   *)
(* pair of users, counting both directions and every status                *)
(***************************************************************************)
SamePair(a, b) == {a.sender, a.receiver} = {b.sender, b.receiver}

C32_OneRecordPerPair == \A a, b \in friends : SamePair(a, b) => a = b


(***************************************************************************)
(* C38: a friend record's status becomes accepted only from pending and    *)
(* only through an action of the request's receiver (POST /friends/accept, *)
(* or the receiver sending a request back); the sender never accepts their *)
(* own request; reject is possible only for the receiver of a pending      *)
(* request; an accepted or rejected record never returns to pending        *)
(***************************************************************************)
\* the request whose save completes in this step
Saving(s) == fr[s].pc = "save" /\ fr'[s].pc = "done" /\ fr'[s].status = 200

StatusStep ==
  \A f \in friends : \A g \in friends' :
    (g.id = f.id /\ g.status # f.status) =>
      /\ f.status = "pending"
      /\ g.status \in {"accepted", "rejected"}
      /\ \E s \in FrSlots :
           /\ Saving(s) /\ fr[s].doc = f.id /\ fr[s].user = f.receiver
           /\ g.status = "accepted" => fr[s].kind \in {"accept", "request"}
           /\ g.status = "rejected" => fr[s].kind = "reject"

C38_AcceptedOnlyFromPending == [][StatusStep]_vars


(***************************************************************************)
(* C33: at the moment a message is persisted, the receiver's block list    *)
(* does not hold the sender and the sender's block list does not hold the  *)
(* receiver, also when a block request of either party completes between   *)
(* the send's block-list checks and its persistence call                   *)
(***************************************************************************)
NoBlockAtCreate ==
  \A m \in messages' \ messages :
    m.sender \notin blockedUsers[m.receiver] /\ m.receiver \notin blockedUsers[m.sender]

C33_NoBlockWhenPersisted == [][NoBlockAtCreate]_vars


(***************************************************************************)
(* C34: once a user's upload of a valid public key has succeeded, an       *)
(* otherwise valid encrypted send addressed to that user is never rejected *)
(* with the error "Recipient has not enabled E2EE"                         *)
(***************************************************************************)
\* the send that is refused as not E2EE-ready in this step
RefusedNotReady(s) == send[s].error # E2eeError /\ send'[s].error = E2eeError

ReadyAfterUpload ==
  \A s \in Slots :
    RefusedNotReady(s) => publicKey[CastObjectId(send[s].receiverId)] = NoKey

C34_ReadyAfterUpload == [][ReadyAfterUpload]_vars


(***************************************************************************)
(* C35: when POST /messages/voice finishes with any outcome after the      *)
(* upload middleware stored the file (201, 400 missing receiver, 404, 403  *)
(* either way, 500), the request's temporary file has been removed         *)
(***************************************************************************)
C35_TempFileRemoved ==
  \A s \in Slots :
    (send[s].path = "voice" /\ send[s].pc = "done" /\ send[s].file) =>
      send[s].tempFile = "removed"


(***************************************************************************)
(* C36: GET /messages/:otherUserId answers hasMore = true exactly when the *)
(* conversation holds a message older than the oldest of the returned      *)
(* page; when the messages still to return are exactly as many as the      *)
(* limit, hasMore is false                                                 *)
(***************************************************************************)
\* messages of the conversation that the page, taken from the newest end, leaves out
LeftOut == fetch.size - fetch.returned

C36_HasMoreIffOlder == fetch.pc = "done" => (fetch.hasMore <=> LeftOut > 0)


(***************************************************************************)
(* C37: DELETE /messages/conversation/:otherUserId by U removes exactly    *)
(* the messages exchanged between U and the other user, in both            *)
(* directions, and leaves the messages of every other pair unchanged; it   *)
(* emits conversation_cleared with clearedBy = U once to each of the two   *)
(* users' rooms; a request naming U itself is rejected and deletes nothing *)
(***************************************************************************)
\* the user the request names
Named == CastObjectId(clear.otherUserId)

OfPair(m) == {m.sender, m.receiver} = {clear.user, Named}

\* the rooms conversation_cleared went to, as a bag
ClearedTo(room) == Cardinality({i \in DOMAIN clear.emits : clear.emits[i].room = room})

ClearedExactly ==
  (clear.pc = "deleteMany" /\ clear'.pc = "done" /\ clear'.status = 200) =>
    messages' = {m \in messages : ~OfPair(m)}

ClearAnswered ==
  clear.pc = "done" =>
    /\ Named = clear.user => clear.status = 400 /\ clear.removed = {} /\ clear.emits = <<>>
    /\ clear.status = 200 =>
         /\ Len(clear.emits) = 2
         /\ ClearedTo(Room(clear.user)) = 1 /\ ClearedTo(Room(Named)) = 1
         /\ \A i \in DOMAIN clear.emits : clear.emits[i].clearedBy = clear.user

C37_ClearsThePairOnly == []ClearAnswered /\ [][ClearedExactly]_vars


(***************************************************************************)
(* C39: a user's lastSeen never moves backwards across the connect,        *)
(* heartbeat and disconnect stamps, and once the user's last connection    *)
(* has closed and all its handlers have finished, lastSeen is the stamp    *)
(* taken at disconnect: a heartbeat tick in flight at the disconnect does  *)
(* not overwrite it with an earlier time                                   *)
(***************************************************************************)
NeverBackwards == \A u \in Users : lastSeen'[u] >= lastSeen[u]

\* the last handler of the last connection of its user ends in this step,
\* after the disconnect update was applied
LastHandlerEnds(c) ==
  /\ conns[c].pc = "closed" /\ conns[c].ticking /\ conns[c].stamped
  /\ conns'[c] = ClosedConn
  /\ \A d \in ConnIds \ {c} : conns[d].user # conns[c].user

DisconnectStampStays ==
  \A c \in ConnIds : LastHandlerEnds(c) => lastSeen'[conns[c].user] = conns[c].stamp

C39_LastSeenMonotonic == [][NeverBackwards /\ DisconnectStampStays]_vars

====
